---------------------------- MODULE Spec2Model ----------------------------
(***************************************************************************)
(* Model of the JSON-to-graph transformation of the JSON graph visualizer  *)
(* (src/services/graphService.ts).                                         *)
(*                                                                         *)
(* An input text is a sequence of JSON lexemes.  JSONParse is a recursive  *)
(* descent parser over that sequence; it yields a JavaScript value or the  *)
(* SyntaxError that JSON.parse raises.  JavaScript values are tagged       *)
(* records:                                                                *)
(*   [k |-> "undef"]  [k |-> "null"]  [k |-> "bool", b |-> BOOLEAN]        *)
(*   [k |-> "num", n |-> Int]         [k |-> "str", s |-> STRING]          *)
(*   [k |-> "arr", a |-> sequence of values]                               *)
(*   [k |-> "obj", m |-> sequence of [key |-> STRING, val |-> value]]      *)
(* Object members keep their insertion order, as JavaScript objects do.    *)
(* Node labels are display strings that no operation of the service reads  *)
(* back; the model keeps the exceptions their evaluation can raise and     *)
(* leaves the text of the label out.                                       *)
(***************************************************************************)
EXTENDS Integers, Sequences, FiniteSets, TLC

VARIABLES nodeIdCounter, input, result, seen,
          jsonInput, graphData, error, isLoading, timers, running

appVars == <<jsonInput, graphData, error, isLoading, timers, running>>

vars == <<nodeIdCounter, input, result, seen, appVars>>

---------------------------------------------------------------------------
(* JavaScript values *)

Undef == [k |-> "undef"]

Null == [k |-> "null"]

Bool(b) == [k |-> "bool", b |-> b]

Num(n) == [k |-> "num", n |-> n]

Str(s) == [k |-> "str", s |-> s]

Arr(a) == [k |-> "arr", a |-> a]

Obj(m) == [k |-> "obj", m |-> m]

Member(key, val) == [key |-> key, val |-> val]

(* if (v): false for undefined, null, false, 0 and "" *)
Truthy(v) ==
    CASE v.k = "undef" -> FALSE
      [] v.k = "null" -> FALSE
      [] v.k = "bool" -> v.b
      [] v.k = "num" -> v.n # 0
      [] v.k = "str" -> v.s # ""
      [] OTHER -> TRUE

(* v == null || v === undefined: the bases on which a property read throws *)
Nullish(v) == v.k \in {"undef", "null"}

(* typeof v === 'number' *)
IsNumber(v) == v.k = "num"

(* Array.isArray(v) *)
IsArray(v) == v.k = "arr"

(* typeof v === 'object' (null included, as in JavaScript) *)
TypeofObject(v) == v.k \in {"obj", "arr", "null"}

RECURSIVE FindMember(_, _, _)
(* index of the member of m named key at or after position i, 0 if none *)
FindMember(m, key, i) ==
    IF i > Len(m) THEN 0
    ELSE IF m[i].key = key THEN i
    ELSE FindMember(m, key, i + 1)

(* v.key for a base that is not null or undefined: own member of an       *)
(* object, undefined on arrays and primitives (no field name the service  *)
(* reads is an array or wrapper property)                                 *)
Get(v, key) ==
    IF v.k = "obj"
    THEN LET i == FindMember(v.m, key, 1)
         IN IF i = 0 THEN Undef ELSE v.m[i].val
    ELSE Undef

(* obj[key] = val: overwrite in place, or append a new member *)
SetMember(m, key, val) ==
    LET i == FindMember(m, key, 1)
    IN IF i = 0 THEN Append(m, Member(key, val))
       ELSE [m EXCEPT ![i] = Member(key, val)]

---------------------------------------------------------------------------
(* Lexemes of the input text *)

LBrace == [t |-> "{"]

RBrace == [t |-> "}"]

LBracket == [t |-> "["]

RBracket == [t |-> "]"]

Colon == [t |-> ":"]

Comma == [t |-> ","]

TStr(s) == [t |-> "str", s |-> s]

TNum(n) == [t |-> "num", n |-> n]

TTrue == [t |-> "true"]

TFalse == [t |-> "false"]

TNull == [t |-> "null"]

(* a run of characters that is no JSON lexeme, such as the word `not` *)
TBad == [t |-> "bad"]

---------------------------------------------------------------------------
(* JSON.parse *)

ParseOk(val, next) == [ok |-> TRUE, val |-> val, next |-> next, msg |-> ""]

ParseFail(msg) == [ok |-> FALSE, val |-> Undef, next |-> 0, msg |-> msg]

UnexpectedEnd == "Unexpected end of JSON input"

UnexpectedToken(i) == "Unexpected token in JSON at position " \o ToString(i)

(* the SyntaxError for the lexeme at position i of text *)
SyntaxErrorAt(text, i) ==
    IF i > Len(text) THEN ParseFail(UnexpectedEnd)
    ELSE ParseFail(UnexpectedToken(i))

RECURSIVE ParseValue(_, _)
RECURSIVE ParseMembers(_, _, _)
RECURSIVE ParseElements(_, _, _)

(* members after `{` or `,`: string ":" value, then `,` or `}` *)
ParseMembers(text, i, m) ==
    IF i > Len(text) \/ text[i].t # "str" THEN SyntaxErrorAt(text, i)
    ELSE IF i + 1 > Len(text) \/ text[i + 1].t # ":"
    THEN SyntaxErrorAt(text, i + 1)
    ELSE LET r == ParseValue(text, i + 2)
         IN IF ~r.ok THEN r
            ELSE LET m2 == SetMember(m, text[i].s, r.val)
                 IN IF r.next > Len(text) THEN SyntaxErrorAt(text, r.next)
                    ELSE IF text[r.next].t = "}"
                    THEN ParseOk(Obj(m2), r.next + 1)
                    ELSE IF text[r.next].t = ","
                    THEN ParseMembers(text, r.next + 1, m2)
                    ELSE SyntaxErrorAt(text, r.next)

(* elements after `[` or `,`: value, then `,` or `]` *)
ParseElements(text, i, a) ==
    LET r == ParseValue(text, i)
    IN IF ~r.ok THEN r
       ELSE LET a2 == Append(a, r.val)
            IN IF r.next > Len(text) THEN SyntaxErrorAt(text, r.next)
               ELSE IF text[r.next].t = "]"
               THEN ParseOk(Arr(a2), r.next + 1)
               ELSE IF text[r.next].t = ","
               THEN ParseElements(text, r.next + 1, a2)
               ELSE SyntaxErrorAt(text, r.next)

ParseValue(text, i) ==
    IF i > Len(text) THEN SyntaxErrorAt(text, i)
    ELSE LET tok == text[i]
         IN CASE tok.t = "str" -> ParseOk(Str(tok.s), i + 1)
              [] tok.t = "num" -> ParseOk(Num(tok.n), i + 1)
              [] tok.t = "true" -> ParseOk(Bool(TRUE), i + 1)
              [] tok.t = "false" -> ParseOk(Bool(FALSE), i + 1)
              [] tok.t = "null" -> ParseOk(Null, i + 1)
              [] tok.t = "{" ->
                    IF i + 1 <= Len(text) /\ text[i + 1].t = "}"
                    THEN ParseOk(Obj(<<>>), i + 2)
                    ELSE ParseMembers(text, i + 1, <<>>)
              [] tok.t = "[" ->
                    IF i + 1 <= Len(text) /\ text[i + 1].t = "]"
                    THEN ParseOk(Arr(<<>>), i + 2)
                    ELSE ParseElements(text, i + 1, <<>>)
              [] OTHER -> SyntaxErrorAt(text, i)

(* JSON.parse(text): one value, then the end of the text *)
JSONParse(text) ==
    LET r == ParseValue(text, 1)
    IN IF ~r.ok THEN r
       ELSE IF r.next <= Len(text) THEN SyntaxErrorAt(text, r.next)
       ELSE r

---------------------------------------------------------------------------
(* The state of one build: the local nodes, edges and maps of              *)
(* jsonToGraphData, the module-level counter, the value addNode returned   *)
(* last, and the exception that ended the build ("" while none is thrown)  *)

NoParent == "<null>"

NodeId(n) == "node-" \o ToString(n)

NewBuild(counter) ==
    [nodes |-> <<>>, edges |-> <<>>, ctr |-> counter,
     seqMap |-> <<>>, idMap |-> <<>>, ret |-> NoParent, err |-> ""]

(* throw new TypeError(msg): the first exception ends the build *)
Throw(S, msg) == IF S.err # "" THEN S ELSE [S EXCEPT !.err = msg]

NullRead == "Cannot read properties of null"

NotAFunction(name) == name \o " is not a function"

(* addNode that does not advance the counter *)
addNodeNoIncrement(S, type, parent, nodeData, depth) ==
    IF S.err # "" THEN S
    ELSE LET id == NodeId(S.ctr)
             node == [id |-> id, type |-> type, data |-> nodeData,
                      depth |-> depth]
             edge == [source |-> parent, target |-> id, type |-> "default"]
         IN [S EXCEPT !.nodes = Append(S.nodes, node),
                      !.edges = IF parent # NoParent /\ parent # ""
                                THEN Append(S.edges, edge)
                                ELSE S.edges,
                      !.ret = id]

(* addNode that pushes the containment edge without testing parent *)
addNodeAlwaysEdge(S, type, parent, nodeData, depth) ==
    IF S.err # "" THEN S
    ELSE LET id == NodeId(S.ctr)
             node == [id |-> id, type |-> type, data |-> nodeData,
                      depth |-> depth]
             edge == [source |-> parent, target |-> id, type |-> "default"]
         IN [S EXCEPT !.ctr = S.ctr + 1,
                      !.nodes = Append(S.nodes, node),
                      !.edges = Append(S.edges, edge),
                      !.ret = id]

(* addNode that advances the counter before it reads it *)
addNodePreIncrement(S, type, parent, nodeData, depth) ==
    IF S.err # "" THEN S
    ELSE LET id == NodeId(S.ctr + 1)
             node == [id |-> id, type |-> type, data |-> nodeData,
                      depth |-> depth]
             edge == [source |-> parent, target |-> id, type |-> "default"]
         IN [S EXCEPT !.ctr = S.ctr + 1,
                      !.nodes = Append(S.nodes, node),
                      !.edges = IF parent # NoParent /\ parent # ""
                                THEN Append(S.edges, edge)
                                ELSE S.edges,
                      !.ret = id]

(* addNode that gives every node below the root the depth 1 *)
addNodeFlatDepth(S, type, parent, nodeData, depth) ==
    IF S.err # "" THEN S
    ELSE LET id == NodeId(S.ctr)
             node == [id |-> id, type |-> type, data |-> nodeData,
                      depth |-> IF depth = 0 THEN 0 ELSE 1]
             edge == [source |-> parent, target |-> id, type |-> "default"]
         IN [S EXCEPT !.ctr = S.ctr + 1,
                      !.nodes = Append(S.nodes, node),
                      !.edges = IF parent # NoParent /\ parent # ""
                                THEN Append(S.edges, edge)
                                ELSE S.edges,
                      !.ret = id]

(* const addNode = (label, type, parent, nodeData, depth) => id *)
addNode(S, type, parent, nodeData, depth) ==
    IF S.err # "" THEN S
    ELSE LET id == NodeId(S.ctr)
             node == [id |-> id, type |-> type, data |-> nodeData,
                      depth |-> depth]
             edge == [source |-> parent, target |-> id, type |-> "default"]
         IN [S EXCEPT !.ctr = S.ctr + 1,
                      !.nodes = Append(S.nodes, node),
                      !.edges = IF parent # NoParent /\ parent # ""
                                THEN Append(S.edges, edge)
                                ELSE S.edges,
                      !.ret = id]

(* Map keys compare by SameValueZero: primitives by value, objects and     *)
(* arrays by identity, and no two values of a parsed document are the      *)
(* same object                                                             *)
SameKey(x, y) == x.k \in {"num", "str", "bool", "null", "undef"} /\ x = y

RECURSIVE MapFind(_, _, _, _)
(* position of the latest entry of entries for (type, key), 0 if none *)
MapFind(entries, type, key, i) ==
    IF i = 0 THEN 0
    ELSE IF entries[i].type = type /\ SameKey(entries[i].key, key) THEN i
    ELSE MapFind(entries, type, key, i - 1)

(* map.get(key); "" stands for undefined *)
MapGet(entries, type, key) ==
    LET i == MapFind(entries, type, key, Len(entries))
    IN IF i = 0 THEN "" ELSE entries[i].id

(* map.set that keeps the entry a key already has *)
MapSetKeepingFirst(entries, type, key, id) ==
    IF MapFind(entries, type, key, Len(entries)) # 0 THEN entries
    ELSE Append(entries, [type |-> type, key |-> key, id |-> id])

(* map.set(key, id): a later entry for the same key replaces the earlier *)
MapSet(entries, type, key, id) ==
    Append(entries, [type |-> type, key |-> key, id |-> id])

(* if (entity[field]) maps.sequenceToNodeId.get(type).set(entity[field], id) *)
IndexSequence(S, type, entity, field, id) ==
    IF S.err # "" THEN S
    ELSE IF Truthy(Get(entity, field))
    THEN [S EXCEPT !.seqMap = MapSet(S.seqMap, type, Get(entity, field), id)]
    ELSE S

(* if (item.id) maps.idToNodeId.set(item.id, itemNodeId) *)
IndexId(S, item, id) ==
    IF S.err # "" THEN S
    ELSE IF Truthy(Get(item, "id"))
    THEN [S EXCEPT !.idMap = MapSet(S.idMap, "id", Get(item, "id"), id)]
    ELSE S

RECURSIVE IndexMembers(_, _)
(* own enumerable members of an array: "0", "1", ... *)
IndexMembers(a, i) ==
    IF i > Len(a) THEN <<>>
    ELSE <<Member(ToString(i - 1), a[i])>> \o IndexMembers(a, i + 1)

(* the single characters of a string are not told apart *)
CharOf(s) == Str("?")

(* { ...v }: the own enumerable members of v *)
Spread(v) ==
    CASE v.k = "obj" -> v.m
      [] v.k = "arr" -> IndexMembers(v.a, 1)
      [] v.k = "str" -> [i \in 1..Len(v.s) |-> Member(ToString(i - 1), CharOf(v.s))]
      [] OTHER -> <<>>

(* v?.[0] *)
OptFirst(v) ==
    CASE Nullish(v) -> Undef
      [] v.k = "arr" -> IF Len(v.a) > 0 THEN v.a[1] ELSE Undef
      [] v.k = "str" -> IF Len(v.s) > 0 THEN CharOf(v.s) ELSE Undef
      [] v.k = "obj" -> Get(v, "0")
      [] OTHER -> Undef

(* if (cond) addNode(...) *)
AddNodeIf(S, cond, type, parent, nodeData, depth) ==
    IF cond THEN addNode(S, type, parent, nodeData, depth) ELSE S

(* what v?.forEach(...) does before the first element:                     *)
(* "skip" on null or undefined, "loop" on an array, else "throw"           *)
ForEachKind(v) ==
    IF Nullish(v) THEN "skip" ELSE IF IsArray(v) THEN "loop" ELSE "throw"

---------------------------------------------------------------------------
(* 3. Process Products and their nested children *)

(* the callback on one service, after its addNode returned S.ret *)
ServiceBody(S, service) ==
    IndexSequence(S, "service", service, "serviceSequence", S.ret)

RECURSIVE ServicesLoop(_, _, _, _)
(* line.services?.forEach(service => ...) from element i on *)
ServicesLoop(S, a, i, lineNodeId) ==
    IF S.err # "" \/ i > Len(a) THEN S
    ELSE LET service == a[i]
         IN IF Nullish(service) THEN Throw(S, NullRead)
            ELSE ServicesLoop(
                     ServiceBody(addNode(S, "service", lineNodeId, service, 3),
                                 service),
                     a, i + 1, lineNodeId)

Services(S, line, lineNodeId) ==
    LET v == Get(line, "services")
    IN IF S.err # "" THEN S
       ELSE CASE ForEachKind(v) = "skip" -> S
              [] ForEachKind(v) = "loop" -> ServicesLoop(S, v.a, 1, lineNodeId)
              [] OTHER -> Throw(S, NotAFunction("line.services.forEach"))

(* the callback on one line, after its addNode returned S.ret *)
LineBody(S, line) ==
    LET lineNodeId == S.ret
        S2 == IndexSequence(S, "line", line, "lineSequence", lineNodeId)
        status == Obj(SetMember(Spread(Get(line, "lineStatus")),
                                "activationDate", Get(line, "activationDate")))
        S3 == AddNodeIf(S2, Truthy(Get(line, "lineStatus")), "status",
                        lineNodeId, status, 3)
    IN Services(S3, line, lineNodeId)

RECURSIVE LinesLoop(_, _, _, _)
(* product.lines?.forEach(line => ...) from element i on *)
LinesLoop(S, a, i, productNodeId) ==
    IF S.err # "" \/ i > Len(a) THEN S
    ELSE LET line == a[i]
         IN IF Nullish(line) THEN Throw(S, NullRead)
            ELSE LinesLoop(
                     LineBody(addNode(S, "line", productNodeId, line, 2), line),
                     a, i + 1, productNodeId)

Lines(S, product, productNodeId) ==
    LET v == Get(product, "lines")
    IN IF S.err # "" THEN S
       ELSE CASE ForEachKind(v) = "skip" -> S
              [] ForEachKind(v) = "loop" -> LinesLoop(S, v.a, 1, productNodeId)
              [] OTHER -> Throw(S, NotAFunction("product.lines.forEach"))

RECURSIVE DevicesLoop(_, _, _, _)
(* item.deviceDetails?.forEach(device => addNode(...)) from element i on *)
DevicesLoop(S, a, i, itemNodeId) ==
    IF S.err # "" \/ i > Len(a) THEN S
    ELSE IF Nullish(a[i]) THEN Throw(S, NullRead)
    ELSE DevicesLoop(addNode(S, "object", itemNodeId, a[i], 3), a, i + 1,
                     itemNodeId)

Devices(S, item, itemNodeId) ==
    LET v == Get(item, "deviceDetails")
    IN IF S.err # "" THEN S
       ELSE CASE ForEachKind(v) = "skip" -> S
              [] ForEachKind(v) = "loop" -> DevicesLoop(S, v.a, 1, itemNodeId)
              [] OTHER -> Throw(S, NotAFunction("item.deviceDetails.forEach"))

(* the callback on one item, after its addNode returned S.ret *)
ItemBody(S, item) ==
    LET itemNodeId == S.ret
        S2 == IndexId(S, item, itemNodeId)
        S3 == AddNodeIf(S2, Get(item, "isReturnItem") # Undef, "object",
                        itemNodeId,
                        Obj(<<Member("isReturnItem",
                                     Get(item, "isReturnItem"))>>), 3)
        S4 == AddNodeIf(S3, Truthy(Get(item, "itemStatus")), "status",
                        itemNodeId, Get(item, "itemStatus"), 3)
    IN Devices(S4, item, itemNodeId)

RECURSIVE ItemsLoop(_, _, _, _)
(* product.items?.forEach(item => ...) from element i on *)
ItemsLoop(S, a, i, productNodeId) ==
    IF S.err # "" \/ i > Len(a) THEN S
    ELSE LET item == a[i]
         IN IF Nullish(item) THEN Throw(S, NullRead)
            ELSE ItemsLoop(
                     ItemBody(addNode(S, "item", productNodeId, item, 2), item),
                     a, i + 1, productNodeId)

Items(S, product, productNodeId) ==
    LET v == Get(product, "items")
    IN IF S.err # "" THEN S
       ELSE CASE ForEachKind(v) = "skip" -> S
              [] ForEachKind(v) = "loop" -> ItemsLoop(S, v.a, 1, productNodeId)
              [] OTHER -> Throw(S, NotAFunction("product.items.forEach"))

(* if (product.aggrements) { aggrements.map(a => a.tcKey).join(', '); addNode } *)
Agreements(S, product, productNodeId) ==
    LET v == Get(product, "aggrements")
    IN IF S.err # "" \/ ~Truthy(v) THEN S
       ELSE IF ~IsArray(v)
       THEN Throw(S, NotAFunction("product.aggrements.map"))
       ELSE IF \E i \in 1..Len(v.a) : Nullish(v.a[i])
       THEN Throw(S, NullRead)
       ELSE addNode(S, "object", productNodeId, v, 2)

(* the callback on one product, after its addNode returned S.ret *)
ProductBody(S, product) ==
    LET productNodeId == S.ret
        S2 == IndexSequence(S, "product", product, "productSequenceNumber",
                            productNodeId)
        S3 == AddNodeIf(S2, Truthy(Get(product, "productStatus")), "status",
                        productNodeId, Get(product, "productStatus"), 2)
        S4 == Lines(S3, product, productNodeId)
        S5 == Items(S4, product, productNodeId)
    IN Agreements(S5, product, productNodeId)

RECURSIVE ProductsLoop(_, _, _, _)
(* data.products?.forEach(product => ...) from element i on *)
ProductsLoop(S, a, i, orderNodeId) ==
    IF S.err # "" \/ i > Len(a) THEN S
    ELSE LET product == a[i]
         IN IF Nullish(product) THEN Throw(S, NullRead)
            ELSE ProductsLoop(
                     ProductBody(addNode(S, "product", orderNodeId, product, 1),
                                 product),
                     a, i + 1, orderNodeId)

(* data.products walked from its last element to its first *)
ProductsReversed(S, data, orderNodeId) ==
    LET v == Get(data, "products")
    IN IF S.err # "" THEN S
       ELSE CASE ForEachKind(v) = "skip" -> S
              [] ForEachKind(v) = "loop" ->
                   ProductsLoop(S, [k \in 1..Len(v.a) |-> v.a[Len(v.a) + 1 - k]],
                                1, orderNodeId)
              [] OTHER -> Throw(S, NotAFunction("data.products.forEach"))

Products(S, data, orderNodeId) ==
    LET v == Get(data, "products")
    IN IF S.err # "" THEN S
       ELSE CASE ForEachKind(v) = "skip" -> S
              [] ForEachKind(v) = "loop" -> ProductsLoop(S, v.a, 1, orderNodeId)
              [] OTHER -> Throw(S, NotAFunction("data.products.forEach"))

---------------------------------------------------------------------------
(* 4. Process Fulfillments and Shipments *)

(* the callback on one shipment, after its addNode returned S.ret *)
ShipmentBody(S, shipment) ==
    AddNodeIf(S, Truthy(Get(shipment, "shipmentStatus")), "status", S.ret,
              Obj(<<Member("status", Get(shipment, "shipmentStatus"))>>), 3)

RECURSIVE ShipmentsLoop(_, _, _, _)
(* fulfillment.shipments?.forEach(shipment => ...) from element i on *)
ShipmentsLoop(S, a, i, fulfillmentNodeId) ==
    IF S.err # "" \/ i > Len(a) THEN S
    ELSE LET shipment == a[i]
         IN IF Nullish(shipment) THEN Throw(S, NullRead)
            ELSE ShipmentsLoop(
                     ShipmentBody(addNode(S, "shipment", fulfillmentNodeId,
                                          shipment, 2), shipment),
                     a, i + 1, fulfillmentNodeId)

(* a fulfillment whose shipments are left out of the graph *)
ShipmentsSkipped(S, fulfillment, fulfillmentNodeId) == S

Shipments(S, fulfillment, fulfillmentNodeId) ==
    LET v == Get(fulfillment, "shipments")
    IN IF S.err # "" THEN S
       ELSE CASE ForEachKind(v) = "skip" -> S
              [] ForEachKind(v) = "loop" ->
                    ShipmentsLoop(S, v.a, 1, fulfillmentNodeId)
              [] OTHER -> Throw(S, NotAFunction("fulfillment.shipments.forEach"))

(* the callback on one fulfillment, after its addNode returned S.ret *)
FulfillmentBody(S, fulfillment) ==
    LET fulfillmentNodeId == S.ret
        S2 == IndexSequence(S, "fulfillment", fulfillment,
                            "fulfillmentSequence", fulfillmentNodeId)
        S3 == AddNodeIf(S2, Truthy(Get(fulfillment, "fulfillmentStatus")),
                        "status", fulfillmentNodeId,
                        Get(fulfillment, "fulfillmentStatus"), 2)
    IN Shipments(S3, fulfillment, fulfillmentNodeId)

RECURSIVE FulfillmentsLoop(_, _, _, _)
(* data.fulfillments?.forEach(fulfillment => ...) from element i on *)
FulfillmentsLoop(S, a, i, orderNodeId) ==
    IF S.err # "" \/ i > Len(a) THEN S
    ELSE LET fulfillment == a[i]
         IN IF Nullish(fulfillment) THEN Throw(S, NullRead)
            ELSE FulfillmentsLoop(
                     FulfillmentBody(addNode(S, "fulfillment", orderNodeId,
                                             fulfillment, 1), fulfillment),
                     a, i + 1, orderNodeId)

Fulfillments(S, data, orderNodeId) ==
    LET v == Get(data, "fulfillments")
    IN IF S.err # "" THEN S
       ELSE CASE ForEachKind(v) = "skip" -> S
              [] ForEachKind(v) = "loop" ->
                    FulfillmentsLoop(S, v.a, 1, orderNodeId)
              [] OTHER -> Throw(S, NotAFunction("data.fulfillments.forEach"))

---------------------------------------------------------------------------
(* 5. Process top-level arrays *)

(* the callback on one promotion, after its addNode returned S.ret *)
PromotionBody(S, promo) ==
    IndexSequence(S, "promotion", promo, "promotionSequence", S.ret)

RECURSIVE PromotionsLoop(_, _, _, _)
(* data.promotions?.forEach(promo => ...) from element i on *)
PromotionsLoop(S, a, i, orderNodeId) ==
    IF S.err # "" \/ i > Len(a) THEN S
    ELSE LET promo == a[i]
         IN IF Nullish(promo) THEN Throw(S, NullRead)
            ELSE PromotionsLoop(
                     PromotionBody(addNode(S, "promotion", orderNodeId, promo, 1), promo),
                     a, i + 1, orderNodeId)

Promotions(S, data, orderNodeId) ==
    LET v == Get(data, "promotions")
    IN IF S.err # "" THEN S
       ELSE CASE ForEachKind(v) = "skip" -> S
              [] ForEachKind(v) = "loop" ->
                    PromotionsLoop(S, v.a, 1, orderNodeId)
              [] OTHER -> Throw(S, NotAFunction("data.promotions.forEach"))

(* the callback on one address, after its addNode returned S.ret *)
AddressBody(S, address) ==
    IndexSequence(S, "address", address, "addressSequence", S.ret)

RECURSIVE AddressesLoop(_, _, _, _)
(* data.addresses?.forEach(address => ...) from element i on *)
AddressesLoop(S, a, i, orderNodeId) ==
    IF S.err # "" \/ i > Len(a) THEN S
    ELSE LET address == a[i]
         IN IF Nullish(address) THEN Throw(S, NullRead)
            ELSE AddressesLoop(
                     AddressBody(addNode(S, "address", orderNodeId, address, 1), address),
                     a, i + 1, orderNodeId)

Addresses(S, data, orderNodeId) ==
    LET v == Get(data, "addresses")
    IN IF S.err # "" THEN S
       ELSE CASE ForEachKind(v) = "skip" -> S
              [] ForEachKind(v) = "loop" ->
                    AddressesLoop(S, v.a, 1, orderNodeId)
              [] OTHER -> Throw(S, NotAFunction("data.addresses.forEach"))

(* the callback on one account, after its addNode returned S.ret *)
AccountBody(S, account) ==
    IndexSequence(S, "account", account, "accountSequence", S.ret)

RECURSIVE AccountsLoop(_, _, _, _)
(* data.accounts?.forEach(account => ...) from element i on *)
AccountsLoop(S, a, i, orderNodeId) ==
    IF S.err # "" \/ i > Len(a) THEN S
    ELSE LET account == a[i]
         IN IF Nullish(account) THEN Throw(S, NullRead)
            ELSE AccountsLoop(
                     AccountBody(addNode(S, "account", orderNodeId, account, 1), account),
                     a, i + 1, orderNodeId)

Accounts(S, data, orderNodeId) ==
    LET v == Get(data, "accounts")
    IN IF S.err # "" THEN S
       ELSE CASE ForEachKind(v) = "skip" -> S
              [] ForEachKind(v) = "loop" ->
                    AccountsLoop(S, v.a, 1, orderNodeId)
              [] OTHER -> Throw(S, NotAFunction("data.accounts.forEach"))

(* if (data.eventLog) addNode(...); if (data.orderTotalPrices?.[0]) addNode(...) *)
EventLogAndTotals(S, data, orderNodeId) ==
    LET S1 == AddNodeIf(S, Truthy(Get(data, "eventLog")), "eventLog",
                        orderNodeId, Get(data, "eventLog"), 1)
    IN AddNodeIf(S1, Truthy(OptFirst(Get(data, "orderTotalPrices"))),
                 "object", orderNodeId, Get(data, "orderTotalPrices"), 1)

---------------------------------------------------------------------------
(* 1. and 2.: the order node and the high-level order properties *)

OrderVertexData(data) ==
    Obj(<<Member("orderId", Get(data, "orderId")),
          Member("orderDate", Get(data, "orderDate")),
          Member("orderingChannel", Get(data, "orderingChannel")),
          Member("originatingSystem", Get(data, "originatingSystem"))>>)

(* order properties with isCancelable promoted only when it is truthy *)
OrderPropertiesOfTruthyFlags(S, data, orderNodeId) ==
    LET S1 == AddNodeIf(S, Truthy(Get(data, "orderContext")), "object",
                        orderNodeId,
                        Obj(<<Member("orderContext",
                                     Get(data, "orderContext"))>>), 1)
        S2 == AddNodeIf(S1, Truthy(Get(data, "isCancelable")), "object",
                        orderNodeId,
                        Obj(<<Member("isCancelable",
                                     Get(data, "isCancelable"))>>), 1)
        S3 == AddNodeIf(S2, Get(data, "isAmendable") # Undef, "object",
                        orderNodeId,
                        Obj(<<Member("isAmendable",
                                     Get(data, "isAmendable"))>>), 1)
    IN AddNodeIf(S3, Truthy(Get(data, "Customer")), "customer", orderNodeId,
                 Get(data, "Customer"), 1)

OrderProperties(S, data, orderNodeId) ==
    LET S1 == AddNodeIf(S, Truthy(Get(data, "orderContext")), "object",
                        orderNodeId,
                        Obj(<<Member("orderContext",
                                     Get(data, "orderContext"))>>), 1)
        S2 == AddNodeIf(S1, Get(data, "isCancelable") # Undef, "object",
                        orderNodeId,
                        Obj(<<Member("isCancelable",
                                     Get(data, "isCancelable"))>>), 1)
        S3 == AddNodeIf(S2, Get(data, "isAmendable") # Undef, "object",
                        orderNodeId,
                        Obj(<<Member("isAmendable",
                                     Get(data, "isAmendable"))>>), 1)
    IN AddNodeIf(S3, Truthy(Get(data, "Customer")), "customer", orderNodeId,
                 Get(data, "Customer"), 1)

(* steps 2 to 5 with the addresses walked before the products *)
OrderBodyAddressesFirst(S, data) ==
    LET orderNodeId == S.ret
        S2 == OrderProperties(S, data, orderNodeId)
        S3 == Addresses(S2, data, orderNodeId)
        S4 == Products(S3, data, orderNodeId)
        S5 == Fulfillments(S4, data, orderNodeId)
        S6 == Promotions(S5, data, orderNodeId)
        S7 == Accounts(S6, data, orderNodeId)
    IN EventLogAndTotals(S7, data, orderNodeId)

(* steps 2 to 5, after the addNode of the order node returned S.ret *)
OrderBody(S, data) ==
    LET orderNodeId == S.ret
        S2 == OrderProperties(S, data, orderNodeId)
        S3 == Products(S2, data, orderNodeId)
        S4 == Fulfillments(S3, data, orderNodeId)
        S5 == Promotions(S4, data, orderNodeId)
        S6 == Addresses(S5, data, orderNodeId)
        S7 == Accounts(S6, data, orderNodeId)
    IN EventLogAndTotals(S7, data, orderNodeId)

(* lines 32-137 of jsonToGraphData: the traversal of a parsed document *)
Traverse(S, data) ==
    OrderBody(addNode(S, "order", NoParent, OrderVertexData(data), 0), data)

---------------------------------------------------------------------------
(* createReferenceEdges *)

(* the table with addressSequence resolved among the accounts *)
referenceKeysAddressAsAccount ==
    <<[prop |-> "accountSequence", type |-> "account"],
      [prop |-> "addressSequence", type |-> "account"],
      [prop |-> "serviceAddressSequence", type |-> "address"],
      [prop |-> "billingAddressSequence", type |-> "address"],
      [prop |-> "fulfillmentSequence", type |-> "fulfillment"],
      [prop |-> "lineSequence", type |-> "line"]>>

referenceKeys ==
    <<[prop |-> "accountSequence", type |-> "account"],
      [prop |-> "addressSequence", type |-> "address"],
      [prop |-> "serviceAddressSequence", type |-> "address"],
      [prop |-> "billingAddressSequence", type |-> "address"],
      [prop |-> "fulfillmentSequence", type |-> "fulfillment"],
      [prop |-> "lineSequence", type |-> "line"]>>

(* the push without the test that the lookup found a node *)
PushReferenceUnresolved(S, node, targetNodeId) ==
    IF S.err # "" THEN S
    ELSE IF targetNodeId # node.id
    THEN [S EXCEPT !.edges = Append(S.edges,
              [source |-> node.id, target |-> targetNodeId,
               type |-> "reference"])]
    ELSE S

(* the push without the test that the target is another node *)
PushReferenceToSelf(S, node, targetNodeId) ==
    IF S.err # "" THEN S
    ELSE IF targetNodeId # ""
    THEN [S EXCEPT !.edges = Append(S.edges,
              [source |-> node.id, target |-> targetNodeId,
               type |-> "reference"])]
    ELSE S

(* the push that puts the edge in front of the list *)
PushReferenceInFront(S, node, targetNodeId) ==
    IF S.err # "" THEN S
    ELSE IF targetNodeId # "" /\ targetNodeId # node.id
    THEN [S EXCEPT !.edges = <<[source |-> node.id, target |-> targetNodeId,
                                type |-> "reference"]>> \o S.edges]
    ELSE S

(* the push that overwrites the last edge of the list *)
PushReferenceOverLast(S, node, targetNodeId) ==
    IF S.err # "" THEN S
    ELSE IF targetNodeId # "" /\ targetNodeId # node.id
    THEN [S EXCEPT !.edges = [S.edges EXCEPT ![Len(S.edges)] =
              [source |-> node.id, target |-> targetNodeId,
               type |-> "reference"]]]
    ELSE S

(* the push that leaves out an edge the list already holds *)
PushReferenceOnce(S, node, targetNodeId) ==
    IF S.err # "" THEN S
    ELSE IF /\ targetNodeId # "" /\ targetNodeId # node.id
            /\ \A e \in 1..Len(S.edges) :
                  S.edges[e] # [source |-> node.id, target |-> targetNodeId,
                                type |-> "reference"]
    THEN [S EXCEPT !.edges = Append(S.edges,
              [source |-> node.id, target |-> targetNodeId,
               type |-> "reference"])]
    ELSE S

(* if (targetNodeId && targetNodeId !== node.id) edges.push({..., 'reference'}) *)
PushReference(S, node, targetNodeId) ==
    IF S.err # "" THEN S
    ELSE IF targetNodeId # "" /\ targetNodeId # node.id
    THEN [S EXCEPT !.edges = Append(S.edges,
              [source |-> node.id, target |-> targetNodeId,
               type |-> "reference"])]
    ELSE S

(* the lookup without the test that the value is a number *)
SequenceLinkUntyped(S, node, type, seqNum) ==
    PushReference(S, node, MapGet(S.seqMap, type, seqNum))

(* if (typeof seqNum === 'number') { look up, push } *)
SequenceLink(S, node, type, seqNum) ==
    IF IsNumber(seqNum)
    THEN PushReference(S, node, MapGet(S.seqMap, type, seqNum))
    ELSE S

RECURSIVE GenericLinks(_, _, _, _)
(* for (const { prop, type } of referenceKeys) from key i on *)
GenericLinks(S, node, dataItem, i) ==
    IF S.err # "" \/ i > Len(referenceKeys) THEN S
    ELSE IF Nullish(dataItem) THEN Throw(S, NullRead)
    ELSE GenericLinks(
             SequenceLink(S, node, referenceKeys[i].type,
                          Get(dataItem, referenceKeys[i].prop)),
             node, dataItem, i + 1)

RECURSIVE AdjustmentsLoop(_, _, _, _)
(* for (const adj of price.adjustments) from element i on *)
AdjustmentsLoop(S, node, a, i) ==
    IF S.err # "" \/ i > Len(a) THEN S
    ELSE IF Nullish(a[i]) THEN Throw(S, NullRead)
    ELSE AdjustmentsLoop(
             SequenceLink(S, node, "promotion", Get(a[i], "promotionSequence")),
             node, a, i + 1)

(* if (price.adjustments && Array.isArray(price.adjustments)) ... *)
AdjustmentLinks(S, node, adjustments) ==
    IF Truthy(adjustments) /\ IsArray(adjustments)
    THEN AdjustmentsLoop(S, node, adjustments.a, 1)
    ELSE S

RECURSIVE PricesLoop(_, _, _, _)
(* for (const price of dataItem.prices) from element i on *)
PricesLoop(S, node, a, i) ==
    IF S.err # "" \/ i > Len(a) THEN S
    ELSE IF Nullish(a[i]) THEN Throw(S, NullRead)
    ELSE PricesLoop(AdjustmentLinks(S, node, Get(a[i], "adjustments")),
                    node, a, i + 1)

(* if (dataItem.prices && Array.isArray(dataItem.prices)) ... *)
PriceLinks(S, node, dataItem) ==
    IF S.err = "" /\ Truthy(Get(dataItem, "prices"))
                  /\ IsArray(Get(dataItem, "prices"))
    THEN PricesLoop(S, node, Get(dataItem, "prices").a, 1)
    ELSE S

RECURSIVE DataItemsLoop(_, _, _, _)
(* for (const dataItem of dataArray) from element i on *)
DataItemsLoop(S, node, dataArray, i) ==
    IF S.err # "" \/ i > Len(dataArray) THEN S
    ELSE DataItemsLoop(
             PriceLinks(GenericLinks(S, node, dataArray[i], 1), node,
                        dataArray[i]),
             node, dataArray, i + 1)

RECURSIVE ItemSequencesLoop(_, _, _, _)
(* for (const itemId of node.data.itemSequences) from element i on *)
ItemSequencesLoop(S, node, a, i) ==
    IF S.err # "" \/ i > Len(a) THEN S
    ELSE ItemSequencesLoop(PushReference(S, node, MapGet(S.idMap, "id", a[i])),
                           node, a, i + 1)

NaN == [nan |-> TRUE, n |-> 0]

DecimalDigits == "0123456789"

(* the character at position i of the string s *)
CharAt(s, i) == SubSeq(s, i, i)

IsDigit(c) == \E d \in 0..9 : CharAt(DecimalDigits, d + 1) = c

DigitOf(c) == CHOOSE d \in 0..9 : CharAt(DecimalDigits, d + 1) = c

(* the characters parseInt skips in front of the number *)
WhiteSpace == {" ", "\t", "\n", "\r"}

RECURSIVE SkipWhiteSpace(_, _)
(* the first position at or after i of s that holds no white space *)
SkipWhiteSpace(s, i) ==
    IF i <= Len(s) /\ CharAt(s, i) \in WhiteSpace
    THEN SkipWhiteSpace(s, i + 1)
    ELSE i

RECURSIVE ParseDigits(_, _, _)
(* the value of n followed by the run of digits of s that starts at i *)
ParseDigits(s, i, n) ==
    IF i <= Len(s) /\ IsDigit(CharAt(s, i))
    THEN ParseDigits(s, i + 1, 10 * n + DigitOf(CharAt(s, i)))
    ELSE n

(* the digits of s from position i on, with the given sign; NaN if none *)
ParseUnsigned(s, i, sign) ==
    IF i <= Len(s) /\ IsDigit(CharAt(s, i))
    THEN [nan |-> FALSE, n |-> sign * ParseDigits(s, i, 0)]
    ELSE NaN

(* an optional sign at position i of s, then the digits *)
ParseSigned(s, i) ==
    IF i <= Len(s) /\ CharAt(s, i) = "-" THEN ParseUnsigned(s, i + 1, -1)
    ELSE IF i <= Len(s) /\ CharAt(s, i) = "+" THEN ParseUnsigned(s, i + 1, 1)
    ELSE ParseUnsigned(s, i, 1)

(* parseInt(s, 10) of a string: white space, sign, digits; the rest of s   *)
(* is ignored                                                              *)
ParseIntOfString(s) == ParseSigned(s, SkipWhiteSpace(s, 1))

RECURSIVE ParseInt(_)
(* parseInt(v, 10): the leading integer of String(v) *)
ParseInt(v) ==
    CASE v.k = "num" -> [nan |-> FALSE, n |-> v.n]
      [] v.k = "str" -> ParseIntOfString(v.s)
      [] v.k = "arr" ->
            IF Len(v.a) = 0 \/ Nullish(v.a[1]) THEN NaN ELSE ParseInt(v.a[1])
      [] OTHER -> NaN

(* if (!isNaN(seqNum)) { look up, push } *)
ProductLink(S, node, seqNum) ==
    IF ~seqNum.nan
    THEN PushReference(S, node, MapGet(S.seqMap, "product", Num(seqNum.n)))
    ELSE S

RECURSIVE ProductSequenceLoop(_, _, _, _)
(* for (const seqStr of node.data.productSequenceNumber) from element i on *)
ProductSequenceLoop(S, node, a, i) ==
    IF S.err # "" \/ i > Len(a) THEN S
    ELSE ProductSequenceLoop(ProductLink(S, node, ParseInt(a[i])),
                             node, a, i + 1)

(* the item lookup for nodes of every type *)
ItemLinksOfAnyNode(S, node) ==
    IF S.err = "" /\ IsArray(Get(node.data, "itemSequences"))
    THEN ItemSequencesLoop(S, node, Get(node.data, "itemSequences").a, 1)
    ELSE S

(* if (node.type === 'line' && Array.isArray(node.data.itemSequences)) ... *)
ItemLinks(S, node) ==
    IF S.err = "" /\ node.type = "line"
                  /\ IsArray(Get(node.data, "itemSequences"))
    THEN ItemSequencesLoop(S, node, Get(node.data, "itemSequences").a, 1)
    ELSE S

(* if (node.type === 'fulfillment' &&                                      *)
(*     Array.isArray(node.data.productSequenceNumber)) ...                 *)
ProductLinks(S, node) ==
    IF S.err = "" /\ node.type = "fulfillment"
                  /\ IsArray(Get(node.data, "productSequenceNumber"))
    THEN ProductSequenceLoop(S, node,
                             Get(node.data, "productSequenceNumber").a, 1)
    ELSE S

(* the body of `for (const node of nodes)` for one node *)
ReferenceEdgesOf(S, node) ==
    IF S.err # "" \/ ~Truthy(node.data) \/ ~TypeofObject(node.data) THEN S
    ELSE LET dataArray == IF IsArray(node.data) THEN node.data.a
                          ELSE <<node.data>>
         IN ProductLinks(ItemLinks(DataItemsLoop(S, node, dataArray, 1), node),
                         node)

RECURSIVE NodesLoop(_, _)
(* for (const node of nodes) from node i on *)
NodesLoop(S, i) ==
    IF S.err # "" \/ i > Len(S.nodes) THEN S
    ELSE NodesLoop(ReferenceEdgesOf(S, S.nodes[i]), i + 1)

createReferenceEdges(S) == NodesLoop(S, 1)

---------------------------------------------------------------------------
(* jsonToGraphData *)

NoResult == [kind |-> "none", nodes |-> <<>>, edges |-> <<>>, message |-> ""]

Graph(nodes, edges) ==
    [kind |-> "graph", nodes |-> nodes, edges |-> edges, message |-> ""]

Failure(message) ==
    [kind |-> "error", nodes |-> <<>>, edges |-> <<>>, message |-> message]

ErrorClasses == {"Error", "SyntaxError", "TypeError"}

UnknownMessage == "An unknown error occurred while parsing JSON."

(* a catch that rethrows the message of the error as it is *)
CatchWithoutWrap(caught) ==
    IF caught.name \in ErrorClasses
    THEN Failure(caught.message)
    ELSE Failure(UnknownMessage)

(* catch (error): what the function throws for the exception it caught *)
Catch(caught) ==
    IF caught.name \in ErrorClasses
    THEN Failure("Invalid JSON: " \o caught.message)
    ELSE Failure(UnknownMessage)

(* a build that goes on counting where the last one stopped *)
KeepCounter(counter) == counter

(* nodeIdCounter = 0 *)
ResetCounter(counter) == 0

(* data of which `typeof data !== 'object' || data === null` holds *)
NotAnObject(data) == ~TypeofObject(data) \/ data = Null

(* the return or throw of a build that ended in state S *)
Outcome(S) ==
    IF S.err # ""
    THEN [result |-> Catch([name |-> "TypeError", message |-> S.err]),
          counter |-> S.ctr]
    ELSE [result |-> Graph(S.nodes, S.edges), counter |-> S.ctr]

(* the value of nodeIdCounter after line 11, or after JSON.parse threw *)
CounterAfterParse(parsed, counter) ==
    IF parsed.ok THEN ResetCounter(counter) ELSE counter

(* lines 13-147, with nodeIdCounter holding counter *)
AfterReset(parsed, counter) ==
    IF ~parsed.ok
    THEN [result |-> Catch([name |-> "SyntaxError", message |-> parsed.msg]),
          counter |-> counter]
    ELSE IF NotAnObject(parsed.val)
    THEN [result |-> Graph(<<>>, <<>>), counter |-> counter]
    ELSE Outcome(createReferenceEdges(Traverse(NewBuild(counter), parsed.val)))

(* lines 9-147, after JSON.parse threw or returned *)
AfterParse(parsed, counter) ==
    AfterReset(parsed, CounterAfterParse(parsed, counter))

(* the outcome of jsonToGraphData(text) and the value it leaves in the     *)
(* module-level nodeIdCounter, which holds counter when the call starts    *)
jsonToGraphData(text, counter) == AfterParse(JSONParse(text), counter)

---------------------------------------------------------------------------
(* Input texts: documents written out as JSON text, and broken texts *)

RECURSIVE Stringify(_)
RECURSIVE StringifyMembers(_, _)
RECURSIVE StringifyElements(_, _)

StringifyMembers(m, i) ==
    IF i > Len(m) THEN <<>>
    ELSE (IF i > 1 THEN <<Comma>> ELSE <<>>)
         \o <<TStr(m[i].key), Colon>> \o Stringify(m[i].val)
         \o StringifyMembers(m, i + 1)

StringifyElements(a, i) ==
    IF i > Len(a) THEN <<>>
    ELSE (IF i > 1 THEN <<Comma>> ELSE <<>>) \o Stringify(a[i])
         \o StringifyElements(a, i + 1)

(* the lexemes of the JSON text of v *)
Stringify(v) ==
    CASE v.k = "null" -> <<TNull>>
      [] v.k = "bool" -> IF v.b THEN <<TTrue>> ELSE <<TFalse>>
      [] v.k = "num" -> <<TNum(v.n)>>
      [] v.k = "str" -> <<TStr(v.s)>>
      [] v.k = "arr" -> <<LBracket>> \o StringifyElements(v.a, 1) \o <<RBracket>>
      [] v.k = "obj" -> <<LBrace>> \o StringifyMembers(v.m, 1) \o <<RBrace>>

(* sequence numbers of the generated documents: 0..MaxSeq *)
MaxSeq == 2

(* longest generated list of sibling entities *)
MaxSiblings == 2

SeqVals == {Num(n) : n \in 0..MaxSeq}

(* no member, or the member name with one of vals *)
Opt(name, vals) == {<<>>} \cup {<<Member(name, v)>> : v \in vals}

(* the lists of at most n elements of set *)
ListsUpTo(set, n) == UNION {[1..len -> set] : len \in 0..n}

Field(name, val) == Obj(<<Member(name, val)>>)

LineSet ==
    {Obj(ls \o ad) : ls \in Opt("lineSequence", {Num(1)}),
                     ad \in Opt("addressSequence", SeqVals)}

AddressLists ==
    {<<>>} \cup {<<Field("addressSequence", Num(n))>> : n \in 1..MaxSeq}

(* one product with one line, and the addresses the line may refer to *)
RefDocs ==
    {Obj(<<Member("orderId", Str("O1")),
           Member("products",
                  Arr(<<Obj(<<Member("productSequenceNumber", Num(1)),
                              Member("lines", Arr(<<l>>))>>)>>)),
           Member("addresses", Arr(ads))>>) :
        l \in LineSet, ads \in AddressLists}

(* sibling products and sibling addresses, with or without sequence numbers *)
SiblingDocs ==
    {Field("products", Arr(ps)) :
        ps \in ListsUpTo({Obj(m) : m \in Opt("productSequenceNumber",
                                              SeqVals \ {Num(0)})},
                         MaxSiblings)}
    \cup
    {Field("addresses", Arr(ads)) :
        ads \in ListsUpTo({Obj(m) : m \in Opt("addressSequence",
                                               SeqVals \ {Num(0)})},
                          MaxSiblings)}

(* two products with one line each: line sequence numbers share one index *)
NestedDocs ==
    {Field("products",
           Arr(<<Field("lines", Arr(<<Field("lineSequence", Num(a))>>)),
                 Field("lines", Arr(<<Obj(<<Member("lineSequence", Num(b)),
                                            Member("addressSequence", Num(a))>>)>>))>>)) :
        a, b \in 1..MaxSeq}

(* values a document may hold where the service expects an array of entities *)
Shapes ==
    {Obj(<<>>), Num(1), Str("x"), Bool(TRUE), Bool(FALSE), Null,
     Arr(<<>>), Arr(<<Null>>), Arr(<<Num(1)>>), Arr(<<Obj(<<>>), Null>>)}

ShapeDocs ==
    {Field(f, v) : f \in {"products", "addresses"}, v \in Shapes}
    \cup {Field("products", Arr(<<Field(f, v)>>)) :
            f \in {"lines", "items", "aggrements"},
            v \in {Obj(<<>>), Arr(<<Null>>), Str("x")}}
    \cup {Field("eventLog", Arr(<<Null>>)),
          Field("orderTotalPrices", Arr(<<Field("prices", Arr(<<Null>>))>>)),
          Field("orderTotalPrices",
                Arr(<<Field("prices",
                            Arr(<<Field("adjustments", Arr(<<Null>>))>>))>>)),
          Field("fulfillments", Arr(<<Field("shipments", Arr(<<Null>>))>>)),
          Field("promotions", Obj(<<>>)),
          Field("accounts", Arr(<<Null>>))}

(* documents whose top-level value is no object *)
TopLevelDocs ==
    {Arr(<<Num(1), Num(2), Num(3)>>), Arr(<<>>), Num(0), Num(1), Str("s"),
     Str(""), Bool(TRUE), Bool(FALSE), Null}

(* a document with every kind of entity the traversal knows *)
FullDocument ==
    Obj(<<Member("orderId", Str("O2")),
          Member("orderContext", Str("NEW")),
          Member("isCancelable", Bool(FALSE)),
          Member("isAmendable", Bool(TRUE)),
          Member("Customer", Field("firstName", Str("John"))),
          Member("products", Arr(<<
              Obj(<<Member("productSequenceNumber", Num(1)),
                    Member("productStatus", Field("code", Str("Active"))),
                    Member("lines", Arr(<<
                        Obj(<<Member("lineSequence", Num(1)),
                              Member("lineStatus", Field("code", Str("Active"))),
                              Member("activationDate", Str("2024-08-01")),
                              Member("itemSequences", Arr(<<Str("ITEM-1")>>)),
                              Member("serviceAddressSequence", Num(1)),
                              Member("fulfillmentSequence", Num(1)),
                              Member("services", Arr(<<
                                  Obj(<<Member("serviceSequence", Num(1)),
                                        Member("accountSequence", Num(1))>>)>>))>>)>>)),
                    Member("items", Arr(<<
                        Obj(<<Member("id", Str("ITEM-1")),
                              Member("isReturnItem", Bool(FALSE)),
                              Member("itemStatus", Field("code", Str("Active"))),
                              Member("lineSequence", Num(1)),
                              Member("deviceDetails",
                                     Arr(<<Field("sku", Str("SKU-1"))>>)),
                              Member("prices", Arr(<<
                                  Field("adjustments", Arr(<<
                                      Field("promotionSequence", Num(1))>>))>>))>>)>>)),
                    Member("aggrements", Arr(<<Field("tcKey", Str("TC1"))>>))>>)>>)),
          Member("fulfillments", Arr(<<
              Obj(<<Member("fulfillmentSequence", Num(1)),
                    Member("fulfillmentStatus", Field("code", Str("Shipped"))),
                    Member("productSequenceNumber", Arr(<<Str("1"), Str("x")>>)),
                    Member("addressSequence", Num(1)),
                    Member("shipments", Arr(<<
                        Obj(<<Member("shipmentSequence", Num(1)),
                              Member("shipmentStatus", Str("IN_TRANSIT"))>>)>>))>>)>>)),
          Member("promotions", Arr(<<Field("promotionSequence", Num(1))>>)),
          Member("addresses", Arr(<<Field("addressSequence", Num(1))>>)),
          Member("accounts", Arr(<<
              Obj(<<Member("accountSequence", Num(1)),
                    Member("billingAddressSequence", Num(1))>>)>>)),
          Member("eventLog", Arr(<<Field("event", Str("CREATED"))>>)),
          Member("orderTotalPrices",
                 Arr(<<Field("totalPriceAfterTax", Num(3))>>))>>)

(* values of a reference field that are no sequence number of the document *)
NoSequence ==
    {Num(99), Str("x"), Str("1"), Null, Bool(TRUE), Arr(<<Num(1)>>)}

(* one line that names an address by a value that is missing, not a number *)
(* or carried by no address, and addresses with and without a number       *)
AddressRefDocs ==
    {Obj(<<Member("products",
                  Arr(<<Field("lines", Arr(<<Obj(ref)>>))>>))>> \o ads) :
        ref \in Opt("addressSequence", NoSequence),
        ads \in Opt("addresses",
                    {Arr(<<Field("addressSequence", v)>>) :
                        v \in {Num(1), Str("x"), Str("1")}}
                    \cup {Arr(<<Obj(<<>>)>>)})}

(* documents with entities that lack every expected field *)
EmptyEntityDocs ==
    {Obj(<<>>),
     Obj(<<Member("products",
                  Arr(<<Obj(<<Member("lines", Arr(<<Obj(<<>>)>>)),
                              Member("items", Arr(<<Obj(<<>>)>>))>>)>>)),
           Member("fulfillments",
                  Arr(<<Field("shipments", Arr(<<Obj(<<>>)>>))>>)),
           Member("promotions", Arr(<<Obj(<<>>)>>)),
           Member("addresses", Arr(<<Obj(<<>>)>>)),
           Member("accounts", Arr(<<Obj(<<>>)>>))>>)}

(* lines that name items by id, and the items of the document *)
ItemRefDocs ==
    {Field("products",
           Arr(<<Obj(<<Member("lines", Arr(<<Field("itemSequences", refs)>>)),
                       Member("items", Arr(items))>>)>>)) :
        refs \in {Arr(<<Str("A")>>), Arr(<<Str("A"), Str("B")>>),
                  Arr(<<Str("")>>), Arr(<<Str("Z")>>), Str("A"),
                  Arr(<<Num(1)>>)},
        items \in {<<Field("id", Str("A"))>>,
                   <<Field("id", Str("A")), Field("id", Str("B"))>>,
                   <<Field("id", Str(""))>>,
                   <<Obj(<<Member("id", Str("A")),
                           Member("itemSequences", Arr(<<Str("B")>>))>>),
                     Field("id", Str("B"))>>,
                   <<Field("id", Num(1))>>,
                   <<Obj(<<>>)>>}}
    \cup
    {Field("products",
           Arr(<<Field("lines", Arr(<<Field("itemSequences",
                                            Arr(<<Str("B")>>))>>)),
                 Field("items", Arr(<<Field("id", Str("B"))>>))>>))}

(* fulfillments that name products by strings, and the products *)
ProductRefDocs ==
    {Obj(<<Member("products", Arr(ps)),
           Member("fulfillments",
                  Arr(<<Field("productSequenceNumber", refs)>>))>>) :
        ps \in {<<Field("productSequenceNumber", Num(0))>>,
                <<Field("productSequenceNumber", Num(1))>>,
                <<Field("productSequenceNumber", Num(12)),
                  Field("productSequenceNumber", Num(2))>>},
        refs \in {Arr(<<Str(x)>>) :
                    x \in {"0", "1", "12", "1abc", " 1", "x", "", "01", "-1"}}
                 \cup {Str("1"), Arr(<<Num(1)>>), Arr(<<Str("2"), Str("12")>>),
                       Arr(<<Null>>)}}

(* documents whose business data is incomplete: fields missing, sequence   *)
(* values that are no numbers, references that no entity answers           *)
IncompleteDocs ==
    AddressRefDocs \cup EmptyEntityDocs \cup ItemRefDocs \cup ProductRefDocs

(* entities that carry the sequence number 0, and references to it *)
ZeroSequenceDocs ==
    {Obj(<<Member("products",
                  Arr(<<Field("lines", Arr(<<Field("addressSequence", Num(0))>>))>>)),
           Member("addresses", Arr(<<Field("addressSequence", Num(0))>>))>>),
     Obj(<<Member("products",
                  Arr(<<Obj(<<Member("lines",
                                     Arr(<<Obj(<<Member("lineSequence", Num(0)),
                                                 Member("fulfillmentSequence", Num(0)),
                                                 Member("accountSequence", Num(0))>>)>>)),
                              Member("items",
                                     Arr(<<Field("lineSequence", Num(0))>>))>>)>>)),
           Member("fulfillments", Arr(<<Field("fulfillmentSequence", Num(0))>>)),
           Member("accounts", Arr(<<Field("accountSequence", Num(0))>>))>>)}

(* a promotion, and a promotionSequence at several places of a document:   *)
(* in the prices of an item, deeper inside an item, among the order totals *)
Adjustments(p) ==
    Arr(<<Field("adjustments", Arr(<<Field("promotionSequence", Num(p))>>))>>)

PriceDocs ==
    {Obj(<<Member("products", Arr(<<Field("items", Arr(<<item>>))>>)),
           Member("promotions", Arr(<<Field("promotionSequence", Num(1))>>))>>) :
        item \in {Field("prices", Adjustments(1)),
                  Field("prices", Adjustments(2)),
                  Field("pricing", Field("prices", Adjustments(1))),
                  Field("prices",
                        Arr(<<Field("adjustments",
                                    Arr(<<Field("promotionSequence", Num(1)),
                                          Field("promotionSequence", Num(1))>>))>>))}}
    \cup
    {Obj(<<Member("orderTotalPrices", Arr(<<total>>)),
           Member("promotions", Arr(<<Field("promotionSequence", Num(1))>>))>>) :
        total \in {Field("prices", Adjustments(1)),
                   Field("adjustments", Arr(<<Field("promotionSequence", Num(1))>>))}}

(* items that supersede one another, as amendedDetails lists them *)
AmendedDocs ==
    {Obj(<<Member("amendedDetails",
                  Arr(<<Obj(<<Member("newId", Str(n)),
                              Member("oldId", Str("ITEM-1"))>>)>>)),
           Member("products",
                  Arr(<<Field("items", Arr(<<Field("id", Str("ITEM-1")),
                                             Field("id", Str("ITEM-2"))>>))>>))>>) :
        n \in {"ITEM-2", "ITEM-9"}}

Documents ==
    RefDocs \cup SiblingDocs \cup NestedDocs \cup ShapeDocs \cup TopLevelDocs
    \cup {FullDocument}

(* {"orderId":"O1","products":[{"productSequenceNumber":1,"lines":          *)
(*  [{"lineSequence":10,"addressSequence":5}]}],"addresses":[{"addressSequence":5}]} *)
ScenarioText ==
    <<LBrace, TStr("orderId"), Colon, TStr("O1"), Comma,
      TStr("products"), Colon, LBracket,
        LBrace, TStr("productSequenceNumber"), Colon, TNum(1), Comma,
          TStr("lines"), Colon, LBracket,
            LBrace, TStr("lineSequence"), Colon, TNum(10), Comma,
              TStr("addressSequence"), Colon, TNum(5), RBrace,
          RBracket, RBrace,
      RBracket, Comma,
      TStr("addresses"), Colon, LBracket,
        LBrace, TStr("addressSequence"), Colon, TNum(5), RBrace,
      RBracket, RBrace>>

(* "{not valid json" *)
NotValidJsonText == <<LBrace, TBad, TBad, TBad>>

(* the text cut off before its end, the empty text included *)
Prefixes(text) == {SubSeq(text, 1, n) : n \in 0..(Len(text) - 1)}

(* texts that are not JSON *)
BrokenTexts ==
    Prefixes(Stringify(Obj(<<Member("orderId", Str("O1")),
                             Member("products", Arr(<<Num(1), Null>>))>>)))
    \cup {NotValidJsonText,
          <<TBad>>,
          <<LBrace, Comma, RBrace>>,
          <<LBrace, TStr("a"), Colon, TNum(1), Comma, RBrace>>,
          <<LBrace, TStr("a"), TNum(1), RBrace>>,
          <<LBrace, TNum(1), Colon, TNum(1), RBrace>>,
          <<LBracket, TNum(1), Comma, RBracket>>,
          <<LBracket, TNum(1), TNum(2), RBracket>>,
          <<LBrace, RBrace, RBrace>>,
          <<TNum(1), TNum(2)>>,
          <<RBracket>>}

(* a document whose text names a member twice: the later value wins *)
DuplicateKeyText ==
    <<LBrace, TStr("addresses"), Colon, TNull, Comma,
      TStr("addresses"), Colon, LBracket, LBrace, RBrace, RBracket, RBrace>>

Texts ==
    {Stringify(d) : d \in Documents}
    \cup {ScenarioText, DuplicateKeyText} \cup BrokenTexts

(* two entities of one type with one sequence number, and nodes that     *)
(* refer to the number; nodes that hold one number under several fields   *)
DuplicateDocs ==
    {Field("products",
           Arr(<<Field("lines", Arr(<<Field("lineSequence", Num(n))>>)),
                 Obj(<<Member("lines", Arr(<<Field("lineSequence", Num(n))>>)),
                       Member("items",
                              Arr(<<Field("lineSequence", Num(n))>>))>>)>>)) :
        n \in 1..MaxSeq}
    \cup
    {Obj(<<Member("products",
                  Arr(<<Field("lines", Arr(<<Field(ref[2], Num(1))>>))>>)),
           Member(ref[1], Arr(<<Field(ref[2], Num(1)),
                                Field(ref[2], Num(1))>>))>>) :
        ref \in {<<"addresses", "addressSequence">>,
                 <<"accounts", "accountSequence">>,
                 <<"fulfillments", "fulfillmentSequence">>}}
    \cup
    {Obj(<<Member("products",
                  Arr(<<Field("productSequenceNumber", Num(1)),
                        Field("productSequenceNumber", Num(1))>>)),
           Member("fulfillments",
                  Arr(<<Field("productSequenceNumber", Arr(<<Str("1")>>))>>))>>),
     Obj(<<Member("products",
                  Arr(<<Field("items", Arr(<<Field("prices", Adjustments(1))>>))>>)),
           Member("promotions",
                  Arr(<<Field("promotionSequence", Num(1)),
                        Field("promotionSequence", Num(1))>>))>>),
     Field("products",
           Arr(<<Field("lines",
                       Arr(<<Field("services",
                                   Arr(<<Field("serviceSequence", Num(1)),
                                         Field("serviceSequence", Num(1))>>))>>))>>))}
    \cup
    {Obj(<<Member("products",
                  Arr(<<Obj(<<Member("lines", Arr(<<Obj(refs)>>)),
                              Member("items", Arr(<<Field("prices",
                                  Arr(<<Field("adjustments",
                                      Arr(<<Field("promotionSequence", Num(1)),
                                            Field("promotionSequence", Num(1))>>))>>))>>))>>)>>)),
           Member("promotions", Arr(<<Field("promotionSequence", Num(1))>>)),
           Member("addresses", Arr(<<Field("addressSequence", Num(1)),
                                     Field("addressSequence", Num(2))>>))>>) :
        refs \in {<<Member("addressSequence", Num(1)),
                    Member("serviceAddressSequence", Num(1))>>,
                  <<Member("addressSequence", Num(1)),
                    Member("serviceAddressSequence", Num(1)),
                    Member("billingAddressSequence", Num(1))>>,
                  <<Member("addressSequence", Num(1)),
                    Member("serviceAddressSequence", Num(2))>>}}

(* the top-level arrays of entities, one empty entity in each *)
EntityFields ==
    {Member(f, Arr(<<Obj(<<>>)>>)) :
        f \in {"products", "fulfillments", "promotions", "addresses", "accounts"}}

(* one document for every order in which a text can list the arrays *)
FieldOrderDocs ==
    {Obj(m) : m \in {p \in [1..Cardinality(EntityFields) -> EntityFields] :
                        \A i, j \in DOMAIN p : p[i] = p[j] => i = j}}

(* the flags of an order and of an item: absent, or present with a value *)
FlagDocs ==
    {Obj(c \o a \o <<Member("products",
                            Arr(<<Field("items", Arr(<<Obj(r)>>))>>))>>) :
        c \in Opt("isCancelable",
                  {Bool(FALSE), Bool(TRUE), Null, Num(0), Str("")}),
        a \in Opt("isAmendable", {Bool(FALSE), Bool(TRUE)}),
        r \in Opt("isReturnItem", {Bool(FALSE), Bool(TRUE), Null})}

(* the texts of the documents that exercise the order of the traversal and *)
(* the order properties                                                    *)
TraversalTexts ==
    {Stringify(d) : d \in FieldOrderDocs \cup FlagDocs \cup {FullDocument}}

(* the texts of the documents that exercise reference resolution *)
ReferenceTexts ==
    {Stringify(d) : d \in IncompleteDocs \cup ZeroSequenceDocs \cup PriceDocs
                          \cup AmendedDocs \cup DuplicateDocs
                          \cup {FullDocument}}

(* the texts built repeatedly *)
RepeatTexts ==
    {Stringify(d) : d \in NestedDocs \cup {Null, Arr(<<>>)}}
    \cup {ScenarioText, NotValidJsonText,
          Stringify(Field("products", Arr(<<Obj(<<>>), Null>>))),
          Stringify(Field("products", Arr(<<Field("lines",
              Arr(<<Field("addressSequence", Num(1))>>))>>)))}
    \cup {Stringify(Field("addresses", Arr(ads))) : ads \in AddressLists}

---------------------------------------------------------------------------
(* The module of the service: nodeIdCounter, and the calls made to it.     *)
(* input and result are the argument and the outcome of the latest call;  *)
(* seen records one earlier call and whether another text was built since. *)
(* The App component (src/App.tsx) holds jsonInput, graphData, error and   *)
(* isLoading; timers are the callbacks that setTimeout has pending, each   *)
(* with the jsonInput its closure captured and a note whether it was       *)
(* scheduled with no other timer pending, in the order they were           *)
(* scheduled; running are the timer callbacks that have entered            *)
(* jsonToGraphData and not yet returned.                                   *)

NoCall == [text |-> <<>>, result |-> NoResult, gap |-> FALSE]

(* the text the input field holds at first: a sample order, for which the  *)
(* document with every kind of entity stands                               *)
defaultJson == Stringify(FullDocument)

(* the value null of the state `error` *)
NoError == "<null>"

(* the component after its first render and effect: handleVisualize has    *)
(* run once and its timer is pending                                       *)
Init ==
    /\ nodeIdCounter = 0
    /\ input = <<>>
    /\ result = NoResult
    /\ seen = NoCall
    /\ jsonInput = defaultJson
    /\ graphData = NoResult
    /\ error = NoError
    /\ isLoading = TRUE
    /\ timers = <<[text |-> defaultJson, alone |-> TRUE]>>
    /\ running = <<>>

(* the call of text returned or threw r.result and left r.counter *)
Returned(text, r) ==
    /\ nodeIdCounter' = r.counter
    /\ input' = text
    /\ result' = r.result

(* one call jsonToGraphData(text) *)
Call(text) == Returned(text, jsonToGraphData(text, nodeIdCounter))

Next == \E text \in Texts : Call(text) /\ UNCHANGED <<seen, appVars>>

Spec == Init /\ [][Next]_vars

(* the call just made is remembered in place of the one seen, or the one   *)
(* seen is kept                                                            *)
Remember(text) ==
    \/ /\ result.kind # "none"
       /\ seen' = [text |-> input, result |-> result, gap |-> text # input]
    \/ seen' = [seen EXCEPT !.gap = seen.gap \/ (seen.result.kind # "none"
                                                  /\ text # seen.text)]

NextRepeat ==
    \E text \in RepeatTexts : Call(text) /\ Remember(text) /\ UNCHANGED appVars

SpecRepeat == Init /\ [][NextRepeat]_vars

(* calls on the documents that exercise reference resolution *)
NextReferences ==
    \E text \in ReferenceTexts : Call(text) /\ UNCHANGED <<seen, appVars>>

SpecReferences == Init /\ [][NextReferences]_vars

NextTraversal ==
    \E text \in TraversalTexts : Call(text) /\ UNCHANGED <<seen, appVars>>

SpecTraversal == Init /\ [][NextTraversal]_vars

---------------------------------------------------------------------------
(* The App component: edits of the input, GO clicks and deferred builds *)

(* the texts typed into the input field *)
AppTexts ==
    {defaultJson, ScenarioText, NotValidJsonText,
     Stringify(Field("products", Obj(<<>>)))}

(* most timers pending at a time *)
MaxTimers == 2

(* a runtime that starts a callback while another one is running *)
Preemptive == TRUE

(* the event loop takes the next event or timer when no callback runs *)
CallStackEmpty == running = <<>>

(* a pending timer: the text its closure captured, and whether no other   *)
(* timer was pending when handleVisualize scheduled it                    *)
Timer(text, alone) == [text |-> text, alone |-> alone]

(* handleVisualize that leaves the graph of the last build on display *)
handleVisualizeKeepingGraph(text) ==
    /\ error' = NoError
    /\ isLoading' = TRUE
    /\ graphData' = graphData
    /\ timers' = Append(timers, Timer(text, timers = <<>>))

(* handleVisualize of the render that holds text as jsonInput *)
handleVisualize(text) ==
    /\ error' = NoError
    /\ isLoading' = TRUE
    /\ graphData' = NoResult
    /\ timers' = Append(timers, Timer(text, timers = <<>>))

(* onChange of the input field: setJsonInput, then the effect of the new   *)
(* handleVisualize; setting the value the state holds renders nothing      *)
Edit(text) ==
    /\ CallStackEmpty
    /\ text # jsonInput
    /\ Len(timers) < MaxTimers
    /\ jsonInput' = text
    /\ handleVisualize(text)
    /\ UNCHANGED <<nodeIdCounter, input, result, seen, running>>

(* onClick of the GO button, which is disabled while isLoading *)
Go ==
    /\ CallStackEmpty
    /\ ~isLoading
    /\ Len(timers) < MaxTimers
    /\ handleVisualize(jsonInput)
    /\ UNCHANGED <<nodeIdCounter, input, result, seen, jsonInput, running>>

(* the oldest timer fires: its callback calls jsonToGraphData, which       *)
(* parses the captured text and resets the counter                         *)
Fire ==
    /\ CallStackEmpty
    /\ timers # <<>>
    /\ timers' = Tail(timers)
    /\ running' = Append(running, [text |-> Head(timers).text,
                                    alone |-> Head(timers).alone,
                                    parsed |-> JSONParse(Head(timers).text)])
    /\ nodeIdCounter' = CounterAfterParse(JSONParse(Head(timers).text),
                                          nodeIdCounter)
    /\ UNCHANGED <<input, result, seen, jsonInput, graphData, error,
                   isLoading>>

(* try { setGraphData(data) } catch { setError(e.message) }                *)
(* finally { setIsLoading(false) }                                         *)
Settle(r) ==
    /\ graphData' = IF r.result.kind = "graph" THEN r.result ELSE graphData
    /\ error' = IF r.result.kind = "error" THEN r.result.message ELSE error
    /\ isLoading' = FALSE

(* the sequence s without its element at position b *)
Without(s, b) == SubSeq(s, 1, b - 1) \o SubSeq(s, b + 1, Len(s))

(* the build b traverses, resolves and returns, and its callback ends *)
Finish(b) ==
    /\ Returned(running[b].text, AfterReset(running[b].parsed, nodeIdCounter))
    /\ Settle(AfterReset(running[b].parsed, nodeIdCounter))
    /\ running' = Without(running, b)
    /\ UNCHANGED <<seen, jsonInput, timers>>

NextApp ==
    \/ \E text \in AppTexts : Edit(text)
    \/ Go
    \/ Fire
    \/ \E b \in 1..Len(running) : Finish(b)

SpecApp == Init /\ [][NextApp]_vars

---------------------------------------------------------------------------
(* Properties of the outcome of the latest call *)

Called == result.kind # "none"

Built == result.kind = "graph"

NodeIds == {result.nodes[i].id : i \in 1..Len(result.nodes)}

Edges == {result.edges[i] : i \in 1..Len(result.edges)}

(* the positions of the edges of type ty whose target is id *)
EdgesInto(id, ty) ==
    {i \in 1..Len(result.edges) :
        result.edges[i].target = id /\ result.edges[i].type = ty}

(* C1: a text that is not valid JSON makes jsonToGraphData fail, with the  *)
(* message 'Invalid JSON: ' followed by the message of the parser, and     *)
(* with no other error                                                     *)
C1_InvalidJsonFailsAsParseError ==
    (Called /\ ~JSONParse(input).ok) =>
        /\ result.kind = "error"
        /\ result.nodes = <<>> /\ result.edges = <<>>
        /\ result.message = "Invalid JSON: " \o JSONParse(input).msg
        /\ result.message # UnknownMessage

C1_Witness ==
    /\ input = NotValidJsonText
    /\ result.kind = "error"
    /\ result.message = "Invalid JSON: Unexpected token in JSON at position 2"

(* C2: a text that parses to a value that is no object at top level (an    *)
(* array, a number, a string, a boolean, null) gives the empty graph       *)
C2_NonObjectGivesEmptyGraph ==
    (Called /\ JSONParse(input).ok /\ JSONParse(input).val.k # "obj") =>
        result = Graph(<<>>, <<>>)

(* C3: a text that parses but whose traversal or reference resolution      *)
(* raises an exception fails with the generic unknown error, not with a    *)
(* message that starts with 'Invalid JSON: '                               *)
C3_TraversalFailureIsUnknownError ==
    (result.kind = "error" /\ JSONParse(input).ok) =>
        result.message = UnknownMessage

(* C4: building a text again, whatever was built before and in between,    *)
(* gives the same nodes and edges, the first node id being 'node-0'        *)
C4_BuildsAreReproducible ==
    /\ (seen.result.kind # "none" /\ seen.text = input) => result = seen.result
    /\ (Built /\ result.nodes # <<>>) => result.nodes[1].id = "node-0"

C4_Witness ==
    /\ seen.text = input /\ seen.gap
    /\ seen.result.kind = "graph" /\ Len(result.nodes) >= 4
    /\ \E e \in Edges : e.type = "reference"

(* C5: the ids of the nodes of one build are pairwise distinct *)
C5_NodeIdsDistinct ==
    Built => \A i, j \in 1..Len(result.nodes) :
                i # j => result.nodes[i].id # result.nodes[j].id

C5_Witness == Built /\ Len(result.nodes) >= 20

(* C6: every node but the root is the target of exactly one 'default'      *)
(* edge, and the root, the only 'order' node, of none                      *)
C6_OneContainmentEdgePerNode ==
    Built => \A i \in 1..Len(result.nodes) :
        IF i = 1
        THEN /\ result.nodes[i].type = "order"
             /\ EdgesInto(result.nodes[i].id, "default") = {}
        ELSE /\ result.nodes[i].type # "order"
             /\ Cardinality(EdgesInto(result.nodes[i].id, "default")) = 1

C6_Witness ==
    /\ Built /\ Len(result.nodes) >= 20
    /\ \E e \in Edges : e.type = "default" /\ e.source # "node-0"

(* C7: source and target of every edge are ids of nodes of the output *)
C7_NoDanglingEdges ==
    Built => \A e \in Edges : e.source \in NodeIds /\ e.target \in NodeIds

(* a line that names an address sequence number no address carries *)
C7_Witness ==
    /\ Built
    /\ \E i \in 1..Len(result.nodes) :
          /\ result.nodes[i].type = "line"
          /\ Get(result.nodes[i].data, "addressSequence") = Num(2)
    /\ \A i \in 1..Len(result.nodes) :
          result.nodes[i].type = "address" =>
              Get(result.nodes[i].data, "addressSequence") = Num(1)
    /\ \E i \in 1..Len(result.nodes) : result.nodes[i].type = "address"

(* C8: no 'reference' or 'amendment' edge has its source as target *)
C8_NoSelfReference ==
    Built => \A e \in Edges :
        e.type \in {"reference", "amendment"} => e.source # e.target

(* entities that carry their own sequence number, and references besides *)
C8_Witness ==
    /\ Built
    /\ \A ty \in {"line", "address", "fulfillment", "account"} :
          \E i \in 1..Len(result.nodes) :
              /\ result.nodes[i].type = ty
              /\ Get(result.nodes[i].data, ty \o "Sequence") = Num(1)
    /\ \E e \in Edges : e.type = "reference"

(* the sequence field of the entities of a type *)
SequenceField ==
    [product |-> "productSequenceNumber", line |-> "lineSequence",
     service |-> "serviceSequence", fulfillment |-> "fulfillmentSequence",
     shipment |-> "shipmentSequence", promotion |-> "promotionSequence",
     address |-> "addressSequence", account |-> "accountSequence"]

(* the source of the containment edge into node i, "" for the root *)
ParentOf(i) ==
    IF EdgesInto(result.nodes[i].id, "default") = {} THEN ""
    ELSE result.edges[CHOOSE e \in EdgesInto(result.nodes[i].id, "default") :
                         TRUE].source

(* nodes i and j are children of one collection *)
Siblings(i, j) ==
    /\ result.nodes[i].type \in DOMAIN SequenceField
    /\ result.nodes[i].type = result.nodes[j].type
    /\ ParentOf(i) = ParentOf(j)

SequenceOf(i) == Get(result.nodes[i].data, SequenceField[result.nodes[i].type])

(* node i comes before node j in ascending, stable order of the field *)
SortsBefore(i, j) ==
    \/ SequenceOf(i).n < SequenceOf(j).n
    \/ SequenceOf(i).n = SequenceOf(j).n /\ i < j

(* C9: the children of a collection that all carry a numeric sequence      *)
(* field are linked by 'sequence' edges from each child to the next one in *)
(* ascending order of the field, ties in input order, and by no others     *)
C9_SequenceChain ==
    Built => \A i, j \in 1..Len(result.nodes) :
        (/\ i # j /\ Siblings(i, j)
         /\ \A k \in 1..Len(result.nodes) :
               Siblings(i, k) => IsNumber(SequenceOf(k)))
        => ((\E e \in Edges : /\ e.type = "sequence"
                              /\ e.source = result.nodes[i].id
                              /\ e.target = result.nodes[j].id)
            <=> (/\ SortsBefore(i, j)
                 /\ ~\E k \in 1..Len(result.nodes) :
                       /\ Siblings(i, k)
                       /\ SortsBefore(i, k) /\ SortsBefore(k, j)))

(* C10: the text of the scenario gives four nodes (order, product under    *)
(* the order, line under the product, address under the order) and one     *)
(* 'reference' edge, from the line to the address                          *)
C10_Scenario ==
    (Called /\ input = ScenarioText) =>
        /\ Built
        /\ [i \in 1..Len(result.nodes) |->
               <<result.nodes[i].id, result.nodes[i].type>>]
             = <<(<<"node-0", "order">>), (<<"node-1", "product">>),
                 (<<"node-2", "line">>), (<<"node-3", "address">>)>>
        /\ {e \in Edges : e.type = "default"}
             = {[source |-> "node-0", target |-> "node-1", type |-> "default"],
                [source |-> "node-1", target |-> "node-2", type |-> "default"],
                [source |-> "node-0", target |-> "node-3", type |-> "default"]}
        /\ Edges \ {e \in Edges : e.type = "default"}
             = {[source |-> "node-2", target |-> "node-3", type |-> "reference"]}
        /\ Len(result.edges) = 4

C10_Witness ==
    /\ input = ScenarioText /\ Built
    /\ Get(result.nodes[3].data, "addressSequence") = Num(5)
    /\ Get(result.nodes[4].data, "addressSequence") = Num(5)

(* the node of the output with the given id *)
NodeOf(id) ==
    result.nodes[CHOOSE i \in 1..Len(result.nodes) : result.nodes[i].id = id]

(* the elements of an array value, no element for any other value *)
ElementsOf(v) == IF IsArray(v) THEN {v.a[i] : i \in 1..Len(v.a)} ELSE {}

(* the objects reference resolution reads of a node: its data, or the      *)
(* elements of its data when the data is an array                          *)
DataItemsOf(n) == IF IsArray(n.data) THEN ElementsOf(n.data) ELSE {n.data}

(* the values of promotionSequence under prices[].adjustments[] of item *)
PromotionRefs(item) ==
    {Get(adj, "promotionSequence") :
        adj \in UNION {ElementsOf(Get(price, "adjustments")) :
                          price \in ElementsOf(Get(item, "prices"))}}

(* node t carries the sequence number v of the entities of type ty *)
Carries(t, ty, field, v) == t.type = ty /\ IsNumber(v) /\ Get(t.data, field) = v

(* the data of node s holds a reference that node t answers *)
Resolves(s, t) ==
    \/ \E k \in 1..Len(referenceKeys), item \in DataItemsOf(s) :
          Carries(t, referenceKeys[k].type, referenceKeys[k].type \o "Sequence",
                  Get(item, referenceKeys[k].prop))
    \/ \E item \in DataItemsOf(s) : \E p \in PromotionRefs(item) :
          Carries(t, "promotion", "promotionSequence", p)
    \/ /\ s.type = "line"
       /\ \E itemId \in ElementsOf(Get(s.data, "itemSequences")) :
             t.type = "item" /\ SameKey(itemId, Get(t.data, "id"))
    \/ /\ s.type = "fulfillment"
       /\ \E seqStr \in ElementsOf(Get(s.data, "productSequenceNumber")) :
             /\ ~ParseInt(seqStr).nan
             /\ Carries(t, "product", "productSequenceNumber",
                        Num(ParseInt(seqStr).n))

(* C11: a document whose business data is incomplete (fields missing,      *)
(* sequence values that are no numbers, references that no entity answers) *)
(* gives a graph and no error, and every 'reference' edge of a graph joins *)
(* a node to an entity that answers a reference of its data                *)
C11_IncompleteDataIsNoError ==
    /\ (Called /\ input \in {Stringify(d) : d \in IncompleteDocs}) => Built
    /\ Built => \A e \in Edges :
                   e.type = "reference" => Resolves(NodeOf(e.source),
                                                    NodeOf(e.target))

(* a line names address 99 while the only address carries 1 *)
C11_Witness ==
    /\ Built /\ Len(result.nodes) = 4
    /\ Get(result.nodes[3].data, "addressSequence") = Num(99)
    /\ Get(result.nodes[4].data, "addressSequence") = Num(1)
    /\ \A e \in Edges : e.type = "default"

(* the position in the node list of the node with the given id *)
NodeIndex(id) ==
    CHOOSE i \in 1..Len(result.nodes) : result.nodes[i].id = id

(* C12: in the edge list every 'default' edge comes before every edge of   *)
(* another type, and the 'default' edges come in the order in which their  *)
(* target nodes were created                                               *)
C12_ContainmentEdgesFirst ==
    Built => \A i, j \in 1..Len(result.edges) :
        (i < j /\ result.edges[j].type = "default") =>
            /\ result.edges[i].type = "default"
            /\ NodeIndex(result.edges[i].target)
                 < NodeIndex(result.edges[j].target)

C12_Witness ==
    /\ Built
    /\ Cardinality({i \in 1..Len(result.edges) :
                       result.edges[i].type = "reference"}) >= 2
    /\ Cardinality({i \in 1..Len(result.edges) :
                       /\ result.edges[i].type = "default"
                       /\ result.edges[i].source # "node-0"}) >= 2

(* C13: the node at position i of the node list, counted from 0, has the   *)
(* id 'node-i'                                                             *)
C13_NodeIdsSequential ==
    Built => \A i \in 1..Len(result.nodes) : result.nodes[i].id = NodeId(i - 1)

C13_Witness ==
    /\ Built /\ Len(result.nodes) >= 3
    /\ result.nodes[3].id = "node-2"
    /\ nodeIdCounter = Len(result.nodes)

(* the output holds a 'reference' edge from node i to node j *)
HasReference(i, j) ==
    [source |-> result.nodes[i].id, target |-> result.nodes[j].id,
     type |-> "reference"] \in Edges

(* node j is the entity of type ty created last with sequence number v *)
LastCarrier(j, ty, field, v) ==
    /\ Carries(result.nodes[j], ty, field, v)
    /\ \A m \in (j + 1)..Len(result.nodes) :
          ~Carries(result.nodes[m], ty, field, v)

(* node j is an item with the business id itemId *)
IsItem(j, itemId) ==
    result.nodes[j].type = "item" /\ SameKey(itemId, Get(result.nodes[j].data, "id"))

(* node j is the item created last with the business id itemId *)
LastItem(j, itemId) ==
    /\ IsItem(j, itemId)
    /\ \A m \in (j + 1)..Len(result.nodes) : ~IsItem(m, itemId)

(* C15: a node whose data, or an element of whose array data, holds a      *)
(* number v (0 included) under a field of the table accountSequence ->     *)
(* account, addressSequence / serviceAddressSequence /                     *)
(* billingAddressSequence -> address, fulfillmentSequence -> fulfillment,  *)
(* lineSequence -> line has a 'reference' edge to the entity of that type  *)
(* with sequence number v, unless that entity is the node itself, whether  *)
(* the entity was created before or after the node                         *)
C15_SequenceReferencesResolve ==
    Built => \A i, j \in 1..Len(result.nodes) :
        \A k \in 1..Len(referenceKeys), item \in DataItemsOf(result.nodes[i]) :
            (/\ i # j
             /\ LastCarrier(j, referenceKeys[k].type,
                            referenceKeys[k].type \o "Sequence",
                            Get(item, referenceKeys[k].prop)))
            => HasReference(i, j)

(* a line has an edge to the item that answers a string of its             *)
(* itemSequences, the strings of the set excluded left aside               *)
ItemEdgesDue(excluded) ==
    Built => \A i, j \in 1..Len(result.nodes) :
        \A itemId \in ElementsOf(Get(result.nodes[i].data, "itemSequences")) :
            (/\ result.nodes[i].type = "line"
             /\ itemId.k = "str" /\ itemId.s \notin excluded
             /\ LastItem(j, itemId))
            => HasReference(i, j)

(* every 'reference' edge into an item starts at a line that names the item *)
ItemEdgesFromLinesOnly ==
    Built => \A i, j \in 1..Len(result.nodes) :
        (result.nodes[j].type = "item" /\ HasReference(i, j)) =>
            /\ result.nodes[i].type = "line"
            /\ \E itemId \in ElementsOf(Get(result.nodes[i].data, "itemSequences")) :
                  IsItem(j, itemId)

C17_ProductReferencesResolve ==
    /\ Built => \A i, j \in 1..Len(result.nodes) :
          \A seqStr \in ElementsOf(Get(result.nodes[i].data,
                                        "productSequenceNumber")) :
              (/\ result.nodes[i].type = "fulfillment"
               /\ seqStr.k = "str" /\ ~ParseInt(seqStr).nan
               /\ LastCarrier(j, "product", "productSequenceNumber",
                              Num(ParseInt(seqStr).n)))
              => HasReference(i, j)
    /\ Built => \A i, j \in 1..Len(result.nodes) :
          (result.nodes[j].type = "product" /\ HasReference(i, j)) =>
              \E seqStr \in ElementsOf(Get(result.nodes[i].data,
                                            "productSequenceNumber")) :
                  ~ParseInt(seqStr).nan
    /\ (Called /\ input \in {Stringify(d) : d \in ProductRefDocs}) => Built

RECURSIVE DeepValues(_)
(* v and every value nested in v, at any depth *)
DeepValues(v) ==
    {v} \cup
    (CASE v.k = "arr" -> UNION {DeepValues(v.a[i]) : i \in 1..Len(v.a)}
       [] v.k = "obj" -> UNION {DeepValues(v.m[i].val) : i \in 1..Len(v.m)}
       [] OTHER -> {})

(* C18: a node has a 'reference' edge to the promotion with                *)
(* promotionSequence p for every prices[].adjustments[].promotionSequence  *)
(* of value p anywhere inside its data, at any nesting depth               *)
C18_NestedPricesResolve ==
    Built => \A i, j \in 1..Len(result.nodes) :
        \A item \in DeepValues(result.nodes[i].data) :
            \A p \in PromotionRefs(item) :
                (i # j /\ LastCarrier(j, "promotion", "promotionSequence", p))
                => HasReference(i, j)

(* C19: for every {newId, oldId} pair of the amendedDetails of the         *)
(* document whose two ids are business ids of items, the output holds an   *)
(* 'amendment' edge from the node of newId to the node of oldId            *)
C19_AmendmentEdges ==
    Built => \A pair \in ElementsOf(Get(JSONParse(input).val, "amendedDetails")) :
        \A i, j \in 1..Len(result.nodes) :
            (LastItem(i, Get(pair, "newId")) /\ LastItem(j, Get(pair, "oldId")))
            => [source |-> result.nodes[i].id, target |-> result.nodes[j].id,
                type |-> "amendment"] \in Edges

(* the lists of after are those of before with edges appended *)
AppendsOnly(before, after) ==
    /\ after.nodes = before.nodes
    /\ Len(after.edges) >= Len(before.edges)
    /\ SubSeq(after.edges, 1, Len(before.edges)) = before.edges

(* C20: the graph returned holds the nodes the traversal created, in the   *)
(* same order and with the same fields, and its edge list starts with the  *)
(* edge list the traversal left; reference resolution only appends edges   *)
C20_ResolutionOnlyAppends ==
    (Built /\ result.nodes # <<>>) =>
        AppendsOnly(Traverse(NewBuild(0), JSONParse(input).val), result)

C20_Witness ==
    /\ Built /\ Len(result.nodes) >= 5
    /\ Len(result.edges) >= Len(result.nodes) + 1
    /\ result.edges[Len(result.nodes) - 1].type = "default"
    /\ result.edges[Len(result.nodes)].type = "reference"

(* C14: under every interleaving of edits, GO clicks and timer firings at  *)
(* most one build is in progress, the counter is 0 when a build that       *)
(* parsed its text starts to allocate ids, and what a build returns is the *)
(* outcome of jsonToGraphData on its text alone: the first id is 'node-0'  *)
C14_BuildsDoNotOverlap ==
    /\ Len(running) <= 1
    /\ \A b \in 1..Len(running) : running[b].parsed.ok => nodeIdCounter = 0
    /\ Called => result = jsonToGraphData(input, 0).result
    /\ (Built /\ result.nodes # <<>>) => result.nodes[1].id = "node-0"

(* a build is in progress after an earlier build, with a timer pending *)
C14_Witness ==
    /\ Len(running) = 1 /\ running[1].parsed.ok
    /\ timers # <<>>
    /\ Built /\ Len(result.nodes) >= 4 /\ input # running[1].text

(* C21: the root node has depth 0, and the target of every 'default' edge  *)
(* has the depth of the source plus 1                                      *)
C21_DepthIsDistanceFromRoot ==
    (Built /\ result.nodes # <<>>) =>
        /\ result.nodes[1].depth = 0
        /\ \A e \in Edges :
              e.type = "default" =>
                  NodeOf(e.target).depth = NodeOf(e.source).depth + 1

C21_Witness ==
    /\ Built
    /\ \A d \in 0..3 : \E i \in 1..Len(result.nodes) : result.nodes[i].depth = d
    /\ \E e \in Edges : e.type = "default" /\ NodeOf(e.target).type = "service"

(* the document of the latest call *)
Document == JSONParse(input).val

(* the arrays of entities the traversal walks: the type of the node that   *)
(* holds the array, the field, and the type of the nodes made of it        *)
EntityArrays ==
    {[parent |-> "order", field |-> "products", child |-> "product"],
     [parent |-> "product", field |-> "lines", child |-> "line"],
     [parent |-> "line", field |-> "services", child |-> "service"],
     [parent |-> "product", field |-> "items", child |-> "item"],
     [parent |-> "order", field |-> "fulfillments", child |-> "fulfillment"],
     [parent |-> "fulfillment", field |-> "shipments", child |-> "shipment"],
     [parent |-> "order", field |-> "promotions", child |-> "promotion"],
     [parent |-> "order", field |-> "addresses", child |-> "address"],
     [parent |-> "order", field |-> "accounts", child |-> "account"]}

(* the input object node i was made of *)
SourceOf(i) ==
    IF result.nodes[i].type = "order" THEN Document ELSE result.nodes[i].data

(* the elements of the array under a field, none when it is no array *)
ArrayOf(v, field) == IF IsArray(Get(v, field)) THEN Get(v, field).a ELSE <<>>

(* the positions of the children of node i of type ty, in creation order *)
ChildrenOf(i, ty) ==
    SelectSeq([k \in 1..Len(result.nodes) |-> k],
              LAMBDA k : /\ result.nodes[k].type = ty
                         /\ ParentOf(k) = result.nodes[i].id)

(* the data of the children of node i of type ty, in creation order *)
ChildrenData(i, ty) ==
    [n \in 1..Len(ChildrenOf(i, ty)) |-> result.nodes[ChildrenOf(i, ty)[n]].data]

(* node j lies in the subtree below node i *)
RECURSIVE IsBelow(_, _)
IsBelow(j, i) ==
    /\ ParentOf(j) # ""
    /\ NodeIndex(ParentOf(j)) < j
    /\ \/ ParentOf(j) = result.nodes[i].id
       \/ IsBelow(NodeIndex(ParentOf(j)), i)

(* C22: nodes are created in pre-order, depth-first: every node comes      *)
(* after its containment parent, the nodes between a node and one of its   *)
(* descendants are descendants of the node too, and the nodes made of one  *)
(* input array come in the order of the array                              *)
C22_PreOrderDepthFirst ==
    Built =>
        /\ \A j \in 1..Len(result.nodes) :
              ParentOf(j) # "" => NodeIndex(ParentOf(j)) < j
        /\ \A i, m, j \in 1..Len(result.nodes) :
              (i < m /\ m < j /\ IsBelow(j, i)) => IsBelow(m, i)
        /\ \A i \in 1..Len(result.nodes) : \A ea \in EntityArrays :
              result.nodes[i].type = ea.parent =>
                  ChildrenData(i, ea.child) = ArrayOf(SourceOf(i), ea.field)

C22_Witness ==
    /\ Built
    /\ Len(ChildrenOf(1, "product")) = 2
    /\ ChildrenData(1, "product")[1] # ChildrenData(1, "product")[2]

(* the children of the order node made of its arrays and single fields *)
OrderChildren ==
    {i \in 1..Len(result.nodes) :
        /\ ParentOf(i) = result.nodes[1].id
        /\ result.nodes[i].type # "object"}

(* the field of the document that the nodes of a type are made of *)
FieldOfType ==
    [customer |-> "Customer", product |-> "products",
     fulfillment |-> "fulfillments", promotion |-> "promotions",
     address |-> "addresses", account |-> "accounts", eventLog |-> "eventLog"]

(* the place of a type in the steps of the traversal *)
TraversalRank ==
    [customer |-> 0, product |-> 1, fulfillment |-> 2, promotion |-> 3,
     address |-> 4, account |-> 5, eventLog |-> 6]

(* the place of the field of a type among the fields of the document *)
FieldPlace(ty) == FindMember(Document.m, FieldOfType[ty], 1)

(* C23, as stated: children of the order node made of different fields are *)
(* created in the order in which the fields appear in the input text       *)
C23_FieldOrderOfTheInput ==
    Built => \A i, j \in OrderChildren :
        FieldPlace(result.nodes[i].type) < FieldPlace(result.nodes[j].type)
            => i < j

(* C23, as amended: children of the order node made of different fields    *)
(* are created in the order of the steps of the traversal (Customer,       *)
(* products, fulfillments, promotions, addresses, accounts, eventLog),     *)
(* wherever the fields stand in the input text                             *)
C23_FieldOrderOfTheTraversal ==
    Built => \A i, j \in OrderChildren :
        TraversalRank[result.nodes[i].type] < TraversalRank[result.nodes[j].type]
            => i < j

C23_Witness ==
    /\ Built
    /\ \E i, j \in OrderChildren :
          /\ result.nodes[i].type = "product"
          /\ result.nodes[j].type = "address"
          /\ FieldPlace("address") < FieldPlace("product")
          /\ i < j

(* the elements of the arrays under a field of the objects parents[i..] *)
RECURSIVE Gather(_, _, _)
Gather(parents, field, i) ==
    IF i > Len(parents) THEN <<>>
    ELSE ArrayOf(parents[i], field) \o Gather(parents, field, i + 1)

(* the entities of the document by type, in the order of the document *)
InputEntities ==
    [product |-> ArrayOf(Document, "products"),
     line |-> Gather(ArrayOf(Document, "products"), "lines", 1),
     service |-> Gather(Gather(ArrayOf(Document, "products"), "lines", 1),
                        "services", 1),
     item |-> Gather(ArrayOf(Document, "products"), "items", 1),
     fulfillment |-> ArrayOf(Document, "fulfillments"),
     shipment |-> Gather(ArrayOf(Document, "fulfillments"), "shipments", 1),
     promotion |-> ArrayOf(Document, "promotions"),
     address |-> ArrayOf(Document, "addresses"),
     account |-> ArrayOf(Document, "accounts")]

(* the nodes of type ty, in creation order *)
NodesOfType(ty) == SelectSeq(result.nodes, LAMBDA n : n.type = ty)

(* C24: for each of the types product, line, service, item, fulfillment,   *)
(* shipment, promotion, address and account the output has as many nodes   *)
(* as the input has elements in the arrays of that type, and the data of   *)
(* the n-th node of a type is the n-th element                             *)
C24_OneNodePerEntity ==
    Built => \A ty \in DOMAIN InputEntities :
        /\ Len(NodesOfType(ty)) = Len(InputEntities[ty])
        /\ \A n \in 1..Len(NodesOfType(ty)) :
              NodesOfType(ty)[n].data = InputEntities[ty][n]

C24_Witness ==
    /\ Built
    /\ \A ty \in DOMAIN InputEntities : Len(NodesOfType(ty)) >= 1

(* the 'object' children of node i whose data is the one field flag *)
FlagNodes(i, flag) ==
    {k \in 1..Len(result.nodes) :
        /\ ParentOf(k) = result.nodes[i].id
        /\ result.nodes[k].type = "object"
        /\ result.nodes[k].data.k = "obj"
        /\ Len(result.nodes[k].data.m) = 1
        /\ result.nodes[k].data.m[1].key = flag}

(* the input object of node i has the field flag, with whatever value *)
HasFlag(i, flag) ==
    SourceOf(i).k = "obj" /\ FindMember(SourceOf(i).m, flag, 1) # 0

(* node i has one node for the flag, which holds the value of the flag and *)
(* lies one level below node i, when its input object has the flag, and no *)
(* node for the flag when it has not                                       *)
FlagPromoted(i, flag) ==
    IF HasFlag(i, flag)
    THEN /\ Cardinality(FlagNodes(i, flag)) = 1
         /\ \A k \in FlagNodes(i, flag) :
               /\ result.nodes[k].data.m[1].val = Get(SourceOf(i), flag)
               /\ result.nodes[k].depth = result.nodes[i].depth + 1
    ELSE FlagNodes(i, flag) = {}

(* C25: an order that carries isCancelable or isAmendable, whatever the    *)
(* value, has one 'object' node per flag as a child of the order node at   *)
(* depth 1, an item that carries isReturnItem has one 'object' child for   *)
(* it, and an absent flag has no node                                      *)
C25_FlagsPromotedWhenPresent ==
    Built =>
        /\ FlagPromoted(1, "isCancelable")
        /\ FlagPromoted(1, "isAmendable")
        /\ result.nodes[1].depth = 0
        /\ \A i \in 1..Len(result.nodes) :
              result.nodes[i].type = "item" => FlagPromoted(i, "isReturnItem")

C25_Witness ==
    /\ Built
    /\ Get(Document, "isCancelable") = Bool(FALSE)
    /\ FlagNodes(1, "isCancelable") # {}
    /\ ~HasFlag(1, "isAmendable")
    /\ \E i \in 1..Len(result.nodes) :
          /\ result.nodes[i].type = "item"
          /\ Get(result.nodes[i].data, "isReturnItem") = Bool(FALSE)
          /\ FlagNodes(i, "isReturnItem") # {}

(* the types of the entities that sequenceToNodeId indexes *)
IndexedTypes ==
    {"product", "line", "service", "fulfillment", "promotion", "address",
     "account"}

(* nodes i and j are entities of one indexed type that hold one sequence   *)
(* number under which the index has an entry                               *)
SameNumber(i, j) ==
    /\ result.nodes[i].type \in IndexedTypes
    /\ result.nodes[i].type = result.nodes[j].type
    /\ IsNumber(SequenceOf(i)) /\ Truthy(SequenceOf(i))
    /\ SequenceOf(i) = SequenceOf(j)

(* no entity created after node j holds the sequence number of node j *)
LastOfNumber(j) == \A m \in (j + 1)..Len(result.nodes) : ~SameNumber(j, m)

(* where several entities hold one number, the references to the number    *)
(* reach the entity created last and none of the earlier ones              *)
ReferencesReachLast ==
    \A s, j \in 1..Len(result.nodes) :
        /\ (HasReference(s, j) /\ result.nodes[j].type \in IndexedTypes)
               => LastOfNumber(j)
        /\ (/\ s # j /\ LastOfNumber(j)
            /\ \E i \in 1..(j - 1) : SameNumber(i, j)
            /\ Resolves(result.nodes[s], result.nodes[j]))
               => HasReference(s, j)

(* every earlier entity of one of the types has an edge to the entity      *)
(* created last with its number                                            *)
EarlierLinkedToLast(types) ==
    \A i, j \in 1..Len(result.nodes) :
        (/\ i < j /\ result.nodes[i].type \in types
         /\ SameNumber(i, j) /\ LastOfNumber(j))
            => HasReference(i, j)

DataSeqOf(n) == IF IsArray(n.data) THEN n.data.a ELSE <<n.data>>

(* node j is what the index holds for the number v of the type ty *)
Indexed(j, ty, v) ==
    Truthy(v) /\ LastCarrier(j, ty, SequenceField[ty], v)

(* the places in the data of node i that resolve to node j: fields of the  *)
(* table, price adjustments, item ids of a line, product numbers of a      *)
(* fulfillment                                                             *)
Occurrences(i, j) ==
    UNION {{<<"sequence", d, k>> :
               k \in {k \in 1..Len(referenceKeys) :
                        Indexed(j, referenceKeys[k].type,
                                Get(DataSeqOf(result.nodes[i])[d],
                                    referenceKeys[k].prop))}} :
           d \in 1..Len(DataSeqOf(result.nodes[i]))}
    \cup
    UNION {UNION {{<<"promotion", d, p, a>> :
                      a \in {a \in 1..Len(ArrayOf(ArrayOf(
                                       DataSeqOf(result.nodes[i])[d],
                                       "prices")[p], "adjustments")) :
                               Indexed(j, "promotion",
                                       Get(ArrayOf(ArrayOf(
                                               DataSeqOf(result.nodes[i])[d],
                                               "prices")[p], "adjustments")[a],
                                           "promotionSequence"))}} :
                  p \in 1..Len(ArrayOf(DataSeqOf(result.nodes[i])[d], "prices"))} :
           d \in 1..Len(DataSeqOf(result.nodes[i]))}
    \cup
    {<<"item", n>> :
        n \in {n \in 1..Len(ArrayOf(result.nodes[i].data, "itemSequences")) :
                 /\ result.nodes[i].type = "line"
                 /\ Truthy(ArrayOf(result.nodes[i].data, "itemSequences")[n])
                 /\ LastItem(j, ArrayOf(result.nodes[i].data,
                                        "itemSequences")[n])}}
    \cup
    {<<"product", n>> :
        n \in {n \in 1..Len(ArrayOf(result.nodes[i].data,
                                     "productSequenceNumber")) :
                 /\ result.nodes[i].type = "fulfillment"
                 /\ ~ParseInt(ArrayOf(result.nodes[i].data,
                                      "productSequenceNumber")[n]).nan
                 /\ Indexed(j, "product",
                            Num(ParseInt(ArrayOf(result.nodes[i].data,
                                    "productSequenceNumber")[n]).n))}}

(* the 'reference' edges from node i to node j in the edge list *)
ReferenceEdges(i, j) ==
    {e \in 1..Len(result.edges) :
        result.edges[e] = [source |-> result.nodes[i].id,
                           target |-> result.nodes[j].id, type |-> "reference"]}

(* C27: the edge list holds one 'reference' edge from a node to another    *)
(* per place of the node's data that resolves to the other, so a node that *)
(* holds one number under addressSequence and serviceAddressSequence, or   *)
(* in two price adjustments, has two equal edges                           *)
C27_OneEdgePerOccurrence ==
    Built => \A i, j \in 1..Len(result.nodes) :
        i # j => Cardinality(ReferenceEdges(i, j)) = Cardinality(Occurrences(i, j))

C27_Witness ==
    /\ Built
    /\ \E i, j \in 1..Len(result.nodes) :
          /\ result.nodes[i].type = "line" /\ result.nodes[j].type = "address"
          /\ Cardinality(ReferenceEdges(i, j)) = 2
    /\ \E i, j \in 1..Len(result.nodes) :
          /\ result.nodes[i].type = "item" /\ result.nodes[j].type = "promotion"
          /\ Cardinality(ReferenceEdges(i, j)) = 2

(* C28, as stated: while a deferred build is pending, isLoading is true,   *)
(* and so the GO button is disabled                                        *)
C28_LoadingWhilePending == timers # <<>> => isLoading

(* the component shows the outcome r of a build and nothing else *)
Displays(r) ==
    IF r.kind = "graph"
    THEN graphData = r /\ error = NoError
    ELSE error = r.message /\ graphData = NoResult

(* C29, as stated: when every deferred build has fired, graphData and      *)
(* error show the outcome of jsonToGraphData for the jsonInput of the      *)
(* component and nothing of an older input                                 *)
C29_LatestInputDisplayed ==
    (timers = <<>> /\ running = <<>>) =>
        Displays(jsonToGraphData(jsonInput, 0).result)

(* C30: handleVisualize clears error and graphData and sets isLoading; a   *)
(* build that ends sets graphData to its graph and leaves error, or sets   *)
(* error to the message of what was thrown and leaves graphData, and       *)
(* clears isLoading; after the build of a timer that was scheduled with no *)
(* other timer pending, one of graphData and error is null                 *)
C30_OutcomeOfABuild ==
    [][/\ Len(timers') > Len(timers) =>
            error' = NoError /\ graphData' = NoResult /\ isLoading'
       /\ Len(running') < Len(running) =>
            /\ ~isLoading'
            /\ \/ /\ result'.kind = "graph"
                  /\ graphData' = result' /\ error' = error
               \/ /\ result'.kind = "error"
                  /\ error' = result'.message /\ graphData' = graphData
       /\ (Len(running') < Len(running) /\ running[1].alone) =>
            (graphData' = NoResult) # (error' = NoError)]_vars

C30_Witness ==
    /\ timers = <<>> /\ running = <<>> /\ ~isLoading
    /\ result.kind = "error"
    /\ error = result.message /\ graphData = NoResult

===========================================================================
